---- MODULE Spec2Model ----
(***************************************************************************)
(* A model of the MIR movie search engine (AliAvd/MIR):                    *)
(*   - Logic/core/crawler.py          IMDbCrawler (concurrent crawl)       *)
(*   - Logic/core/indexer/index.py    Index (four inverted indexes)        *)
(*   - Logic/core/spell_correction.py SpellCorrection                      *)
(*   - Logic/core/utility/            Evaluation, Snippet, Scorer          *)
(* Python values that may be None are tagged: None, Str(s), List(l).       *)
(* A URL or an href is the sequence of its '/'-separated segments, so that *)
(* str.split('/') is the identity on the representation and indexing into  *)
(* the split is sequence indexing (Python index k is TLA+ index k+1).      *)
(***************************************************************************)
EXTENDS Integers, Sequences, FiniteSets, TLC

VARIABLES
    \* ---- IMDbCrawler ----
    not_crawled,      \* self.not_crawled: the frontier, a sequence of URLs
    nc_type,          \* Python type of self.not_crawled: "deque" or "list"
    crawled,          \* self.crawled: sequence of movie records
    added_ids,        \* self.added_ids: set of ids
    crawled_counter,  \* local of start_crawling
    futures,          \* local of start_crawling: indexes of the tasks in `futures`
    tasks,            \* every crawl_page_info call submitted to the executor
    mainpc,           \* position of the main thread
    raised,           \* exception that reached the caller of the API ("" = none)
    crawled_file,     \* ../IMDB_crawled.json      (Missing or its content)
    nc_file,          \* ../IMDB_not_crawled.json  (Missing or its content)
    \* ---- Index ----
    preprocessed_documents,  \* self.preprocessed_documents
    index,            \* self.index: documents / stars / genres / summaries
    index_files,      \* <path>/<field>_index.json for each field
    call,             \* the last Index method called, with its arguments
    prev_call,        \* the call before that
    ret,              \* what the last call returned or raised
    index_before,     \* copy of self.index taken when the last add started
    ncalls,           \* number of Index methods called so far
    \* ---- SpellCorrection ----
    all_shingled_words,  \* self.all_shingled_words: items (word, shingles) in insertion order
    word_counter,     \* self.word_counter: word -> occurrences in the corpus
    spell_call,       \* the last SpellCorrection method called, with its arguments
    spell_ret,        \* what it returned or raised
    spell_parts,      \* what spell_check appended for each token of the query
    \* ---- Evaluation ----
    eval_call,        \* the last Evaluation method called, with its arguments
    eval_ret,         \* what it returned or raised
    \* ---- Snippet ----
    number_of_words_on_each_side,  \* self.number_of_words_on_each_side
    snippet_call,     \* the last Snippet method called, with its arguments
    snippet_ret,      \* what it returned
    \* ---- Scorer ----
    scorer_index,     \* self.index: term -> {document id: tf}
    idf,              \* self.idf: the idf values computed so far
    N,                \* self.N: number of documents
    scorer_call,      \* the last Scorer method called, with its arguments
    scorer_ret,       \* what it returned or raised
    \* ---- SVMClassifier ----
    svc_fitted,       \* self.model: None until fitted, then the classes it was fitted on
    svc_predicted,    \* what self.model.predict returned last
    svm_call,         \* the last SVMClassifier method called, with its arguments
    svm_ret,          \* what it returned or raised
    \* ---- Metadata_index ----
    metadata_documents,  \* self.documents: the DOCUMENTS index as read
    metadata_index,   \* self.metadata_index
    metadata_file,    \* the stored metadata index file
    metadata_call,    \* the last Metadata_index method called
    metadata_ret,     \* what it returned or raised
    \* ---- MinHashLSH.jaccard_similarity_test ----
    lsh_documents,    \* all_documents
    buckets,          \* buckets: insertion-ordered keys and the list of each
    lsh_pc,           \* idle, while (the sampling loop), done or raised
    lsh_pairs,        \* the candidate pairs not yet counted, the current one first
    lsh_round,        \* the index `_` of `for _ in range(5)`
    random_doc_id,    \* random_doc_id
    current_score,    \* current_score
    correct_near_duplicates,  \* correct_near_duplicates
    all_near_duplicates,      \* all_near_duplicates
    lsh_ret           \* the ratio printed, or the exception raised

crawlerVars == <<not_crawled, nc_type, crawled, added_ids, crawled_counter,
                 futures, tasks, mainpc, raised, crawled_file, nc_file>>

indexVars == <<preprocessed_documents, index, index_files, call, prev_call,
               ret, index_before, ncalls>>

spellVars == <<all_shingled_words, word_counter, spell_call, spell_ret, spell_parts>>

\* the objects of the query-side libraries
evalVars == <<eval_call, eval_ret>>
snippetVars == <<number_of_words_on_each_side, snippet_call, snippet_ret>>
scorerVars == <<scorer_index, idf, N, scorer_call, scorer_ret>>
svmVars == <<svc_fitted, svc_predicted, svm_call, svm_ret>>
metadataVars == <<metadata_documents, metadata_index, metadata_file, metadata_call, metadata_ret>>
lshVars == <<lsh_documents, buckets, lsh_pc, lsh_pairs, lsh_round, random_doc_id, current_score, correct_near_duplicates, all_near_duplicates, lsh_ret>>
libraryVars == <<spellVars, evalVars, snippetVars, scorerVars, svmVars, metadataVars, lshVars>>

vars == <<crawlerVars, indexVars, libraryVars>>

----------------------------------------------------------------------------
(* Bounds *)
CrawlingThreshold == 2     \* crawling_threshold passed to IMDbCrawler(...)
MaxDocs == 2               \* documents in the corpus an Index is built from
MaxCalls == 3              \* Index methods called on one Index
MaxQueries == 2            \* queries in the lists given to an Evaluation method

(* Program constants *)
max_workers == 20          \* ThreadPoolExecutor(max_workers=20)

----------------------------------------------------------------------------
(* Python values *)
None == [py |-> "None"]
Str(s) == [py |-> "str", v |-> s]
List(l) == [py |-> "list", v |-> l]
Missing == [file |-> "missing"]
File(c) == [file |-> "present", content |-> c]

SeqsUpTo(S, n) == UNION {[1..k -> S] : k \in 0..n}
Range(s) == {s[i] : i \in DOMAIN s}

----------------------------------------------------------------------------
(* URLs *)
Ids == {"tt1", "tt2"}
IndexError == "!IndexError"

\* "https://www.imdb.com/".split('/') without its last (empty) segment
base_URL == <<"https:", "", "www.imdb.com">>

\* href="/title/<id>/?ref_=x" as the site writes it, and href="title/<id>"
HrefAbs(x) == <<"", "title", x, "?ref_=x">>
HrefRel(x) == <<"title", x>>

\* URL.split('/')[4]
get_id_from_URL(URL) == IF Len(URL) >= 5 THEN URL[5] ELSE IndexError

\* 'https://www.imdb.com/' + c[1] + '/' + c[2]   with c = href.split("/")
top_250_url(c) == base_URL \o <<c[2], c[3]>>

\* "https://www.imdb.com/" + link['href']
related_url(href) == base_URL \o href

----------------------------------------------------------------------------
(* The web: what a GET can answer *)

\* outcome of the GET of a secondary page (plotsummary, reviews, parentalguide):
\* "ok" = 200 and parsed, "non200" = any other status, "error" = the GET or
\* the parsing raised
\* the "More like this" sections the model serves
LinkLists == { <<>>, <<HrefAbs("tt1")>>, <<HrefRel("tt2")>>,
               <<HrefRel("tt1"), HrefRel("tt2")>> }

\* what the GETs for one detail page find: soup = whether the elements the
\* soup-based extractors look for are there, then the outcome of each
\* secondary GET
FullPage == [soup |-> TRUE, summary |-> "ok", synopsis |-> "ok", reviews |-> "ok", guide |-> "ok"]
BarePage == [soup |-> TRUE, summary |-> "non200", synopsis |-> "non200", reviews |-> "non200", guide |-> "non200"]
BrokenPage == [soup |-> FALSE, summary |-> "error", synopsis |-> "error", reviews |-> "error", guide |-> "ok"]

Page(shape, hrefs) == [shape |-> shape, hrefs |-> hrefs]
Pages == {Page(FullPage, l) : l \in LinkLists}
         \cup {Page(BarePage, <<>>), Page(BrokenPage, <<>>)}

Exception == [kind |-> "exception"]
Response(code) == [kind |-> "http", status_code |-> code]
Response200(page) == [kind |-> "http", status_code |-> 200, page |-> page]
DetailResponses == {Exception, Response(404)} \cup {Response200(p) : p \in Pages}

\* the anchors of the top-250 pages the model serves
SeedLists == { <<>>, <<HrefAbs("tt1")>>, <<HrefAbs("tt1"), HrefAbs("tt2")>>,
               <<HrefAbs("tt2"), HrefAbs("tt2")>>, <<HrefAbs("tt1"), HrefRel("tt2")>> }
SeedResponses == {Exception, Response(404)}
                 \cup {Response200(Page(FullPage, l)) : l \in SeedLists}

\* `if response and response.status_code == 200` (a Response is truthy iff ok)
is_200(response) == response.kind = "http" /\ response.status_code = 200

----------------------------------------------------------------------------
(* Field extractors *)

Tuple(t) == [py |-> "tuple", v |-> t]

\* extractors working on the soup of the detail page: value, or the default
\* of the except branch
get_title(page) == IF page.shape.soup THEN Str("title") ELSE Str("")
get_first_page_summary(page) == IF page.shape.soup THEN Str("fps") ELSE Str("")
get_release_year(page) == IF page.shape.soup THEN Str("1994") ELSE Str("")
get_budget(page) == IF page.shape.soup THEN Str("25000000") ELSE Str("")
get_gross_worldwide(page) == IF page.shape.soup THEN Str("28884716") ELSE Str("")
get_rating(page) == IF page.shape.soup THEN Str("9.3") ELSE Str("")
get_director(page) == IF page.shape.soup THEN List(<<"director">>) ELSE List(<<>>)
get_writers(page) == IF page.shape.soup THEN List(<<"writer">>) ELSE List(<<>>)
get_stars(page) == IF page.shape.soup THEN List(<<"star">>) ELSE List(<<>>)
get_genres(page) == IF page.shape.soup THEN List(<<"drama">>) ELSE List(<<>>)
get_languages(page) == IF page.shape.soup THEN List(<<"english">>) ELSE List(<<>>)
get_countries_of_origin(page) == IF page.shape.soup THEN List(<<"us">>) ELSE List(<<>>)
get_related_links(page) == List([i \in DOMAIN page.hrefs |-> related_url(page.hrefs[i])])

\* extractors fetching a secondary page: `if res.status_code == 200:` has no
\* else branch, so a non-200 answer falls off the end of the function
get_summary(page) ==
    CASE page.shape.summary = "ok" -> List(<<"summary">>)
      [] page.shape.summary = "non200" -> None
      [] OTHER -> List(<<>>)
get_synopsis(page) ==
    CASE page.shape.synopsis = "ok" -> List(<<"synopsis">>)
      [] page.shape.synopsis = "non200" -> None
      [] OTHER -> List(<<>>)
get_reviews_with_scores(page) ==
    CASE page.shape.reviews = "ok" -> List(<<Tuple(<<"review", "No Rating">>)>>)
      [] page.shape.reviews = "non200" -> None
      [] OTHER -> List(<<>>)
get_mpaa(page) ==
    CASE page.shape.guide = "ok" -> Str("R")
      [] page.shape.guide = "non200" -> None
      [] OTHER -> Str("")

\* extract_movie_info fills the dict of get_imdb_instance; it raises when
\* get_id_from_URL(URL) does (the first assignment is outside any try)
extract_movie_info(page, URL) ==
    [ id |-> get_id_from_URL(URL),
      title |-> get_title(page),
      first_page_summary |-> get_first_page_summary(page),
      release_year |-> get_release_year(page),
      mpaa |-> get_mpaa(page),
      budget |-> get_budget(page),
      gross_worldwide |-> get_gross_worldwide(page),
      directors |-> get_director(page),
      writers |-> get_writers(page),
      stars |-> get_stars(page),
      related_links |-> get_related_links(page),
      genres |-> get_genres(page),
      languages |-> get_languages(page),
      countries_of_origin |-> get_countries_of_origin(page),
      rating |-> get_rating(page),
      summaries |-> get_summary(page),
      synopsis |-> get_synopsis(page),
      reviews |-> get_reviews_with_scores(page) ]

StringFields == {"title", "first_page_summary", "release_year", "mpaa",
                 "budget", "gross_worldwide", "rating"}
ListFields == {"directors", "writers", "stars", "related_links", "genres",
               "languages", "countries_of_origin", "summaries", "synopsis", "reviews"}

----------------------------------------------------------------------------
(* IMDbCrawler: state after __init__ *)

NoMovie == None
Task(URL) == [URL |-> URL, pc |-> "queued", movie |-> NoMovie, i |-> 1]

InitCrawler ==
    /\ not_crawled = <<>>
    /\ nc_type = "deque"
    /\ crawled = <<>>
    /\ added_ids = {}
    /\ crawled_counter = 0
    /\ futures = {}
    /\ tasks = <<>>
    /\ mainpc = "idle"
    /\ raised = ""
    /\ crawled_file = Missing
    /\ nc_file = Missing

\* `url not in self.crawled`: self.crawled holds dicts and url is a str, so
\* the membership test never succeeds
url_in_crawled(url) == FALSE

\* the for loop of extract_top_250 from anchor i on; an href with fewer than
\* three segments raises IndexError, which the enclosing try ends the loop on
RECURSIVE top_250_loop(_, _, _, _)
top_250_loop(contents, i, nc, ids) ==
    IF i > Len(contents) THEN <<nc, ids>>
    ELSE LET c == contents[i] IN
         IF Len(c) < 3 THEN <<nc, ids>>
         ELSE LET url == top_250_url(c)
                  id == get_id_from_URL(url)
              IN IF id \notin ids /\ ~url_in_crawled(url)
                 THEN top_250_loop(contents, i + 1, Append(nc, url), ids \cup {id})
                 ELSE top_250_loop(contents, i + 1, nc, ids)

extract_top_250(response) ==
    IF is_200(response)
    THEN top_250_loop(response.page.hrefs, 1, not_crawled, added_ids)
    ELSE <<not_crawled, added_ids>>

\* start_crawling up to the `with ThreadPoolExecutor` line
start_crawling ==
    /\ mainpc = "idle"
    /\ \E response \in SeedResponses :
         LET r == extract_top_250(response) IN
         /\ not_crawled' = r[1]
         /\ added_ids' = r[2]
    /\ futures' = {}
    /\ crawled_counter' = 0
    /\ mainpc' = "while"
    /\ UNCHANGED <<nc_type, crawled, tasks, raised, crawled_file, nc_file>>
    /\ UNCHANGED <<indexVars, libraryVars>>

\* mutant of while_test: the threshold test is off by one (<=)
while_test_off_by_one ==
    /\ mainpc = "while"
    /\ mainpc' = IF Len(not_crawled) > 0 /\ crawled_counter <= CrawlingThreshold
                 THEN "pop" ELSE "final_wait"
    /\ UNCHANGED <<not_crawled, nc_type, crawled, added_ids, crawled_counter,
                   futures, tasks, raised, crawled_file, nc_file>>
    /\ UNCHANGED <<indexVars, libraryVars>>

\* `while len(self.not_crawled) > 0 and crawled_counter < self.crawling_threshold`
while_test ==
    /\ mainpc = "while"
    /\ mainpc' = IF Len(not_crawled) > 0 /\ crawled_counter < CrawlingThreshold
                 THEN "pop" ELSE "final_wait"
    /\ UNCHANGED <<not_crawled, nc_type, crawled, added_ids, crawled_counter,
                   futures, tasks, raised, crawled_file, nc_file>>
    /\ UNCHANGED <<indexVars, libraryVars>>

\* popleft under add_queue_lock, executor.submit, crawled_counter += 1;
\* a list (left by read_from_file_as_json) has no popleft
pop_and_submit ==
    /\ mainpc = "pop"
    /\ IF nc_type = "list"
       THEN /\ raised' = "AttributeError"
            /\ mainpc' = "crashed"
            /\ UNCHANGED <<not_crawled, tasks, futures, crawled_counter>>
       ELSE /\ not_crawled' = Tail(not_crawled)
            /\ tasks' = Append(tasks, Task(Head(not_crawled)))
            /\ futures' = futures \cup {Len(tasks) + 1}
            /\ crawled_counter' = crawled_counter + 1
            /\ mainpc' = "if_empty"
            /\ UNCHANGED raised
    /\ UNCHANGED <<nc_type, crawled, added_ids, crawled_file, nc_file>>
    /\ UNCHANGED <<indexVars, libraryVars>>

\* `if len(self.not_crawled) == 0:`
if_empty ==
    /\ mainpc = "if_empty"
    /\ mainpc' = IF Len(not_crawled) = 0 THEN "wait" ELSE "while"
    /\ UNCHANGED <<not_crawled, nc_type, crawled, added_ids, crawled_counter,
                   futures, tasks, raised, crawled_file, nc_file>>
    /\ UNCHANGED <<indexVars, libraryVars>>

Finished(t) == tasks[t].pc \in {"done", "failed"}

\* mutant of wait_futures: the loop goes on without waiting
wait_futures_not_waiting ==
    /\ mainpc = "wait"
    /\ futures' = {}
    /\ mainpc' = "while"
    /\ UNCHANGED <<not_crawled, nc_type, crawled, added_ids, crawled_counter,
                   tasks, raised, crawled_file, nc_file>>
    /\ UNCHANGED <<indexVars, libraryVars>>

\* wait(futures); futures = []   inside the loop
wait_futures ==
    /\ mainpc = "wait"
    /\ \A t \in futures : Finished(t)
    /\ futures' = {}
    /\ mainpc' = "while"
    /\ UNCHANGED <<not_crawled, nc_type, crawled, added_ids, crawled_counter,
                   tasks, raised, crawled_file, nc_file>>
    /\ UNCHANGED <<indexVars, libraryVars>>

\* wait(futures) after the loop, then the executor's shutdown(wait=True)
final_wait ==
    /\ mainpc = "final_wait"
    /\ \A t \in futures : Finished(t)
    /\ \A t \in DOMAIN tasks : Finished(t)
    /\ mainpc' = "done"
    /\ UNCHANGED <<not_crawled, nc_type, crawled, added_ids, crawled_counter,
                   futures, tasks, raised, crawled_file, nc_file>>
    /\ UNCHANGED <<indexVars, libraryVars>>

----------------------------------------------------------------------------
(* crawl_page_info, one action per atomic step of a worker thread *)

Running == {t \in DOMAIN tasks : tasks[t].pc \notin {"queued", "done", "failed"}}

links_of(t) == tasks[t].movie.related_links.v

\* position of the for loop over related_links after link i has been handled
next_link(t, i) == IF i > Len(links_of(t)) THEN "done" ELSE "test_link"

\* mutant of crawl_fetch: a URL whose fetch failed goes back to the frontier
crawl_fetch_requeue(t, response) ==
    /\ tasks[t].pc = "queued"
    /\ Cardinality(Running) < max_workers
    /\ LET URL == tasks[t].URL IN
       /\ tasks' = [tasks EXCEPT ![t] =
            IF response.kind = "exception" THEN [@ EXCEPT !.pc = "failed"]
            ELSE IF ~is_200(response) THEN [@ EXCEPT !.pc = "done"]
            ELSE [@ EXCEPT !.pc = "append",
                           !.movie = extract_movie_info(response.page, URL)]]
       /\ not_crawled' = IF is_200(response) THEN not_crawled
                         ELSE Append(not_crawled, URL)
    /\ UNCHANGED <<nc_type, crawled, added_ids, crawled_counter,
                   futures, mainpc, raised, crawled_file, nc_file>>
    /\ UNCHANGED <<indexVars, libraryVars>>

\* a free worker takes the task: self.crawl(URL) and, on 200,
\* extract_movie_info; an exception ends the call and stays in its future
crawl_fetch(t, response) ==
    /\ tasks[t].pc = "queued"
    /\ Cardinality(Running) < max_workers
    /\ LET URL == tasks[t].URL IN
       tasks' = [tasks EXCEPT ![t] =
         IF response.kind = "exception" THEN [@ EXCEPT !.pc = "failed"]
         ELSE IF ~is_200(response) THEN [@ EXCEPT !.pc = "done"]
         ELSE IF get_id_from_URL(URL) = IndexError THEN [@ EXCEPT !.pc = "failed"]
         ELSE [@ EXCEPT !.pc = "append",
                        !.movie = extract_movie_info(response.page, URL)]]
    /\ UNCHANGED <<not_crawled, nc_type, crawled, added_ids, crawled_counter,
                   futures, mainpc, raised, crawled_file, nc_file>>
    /\ UNCHANGED <<indexVars, libraryVars>>

\* with self.add_queue_lock: self.crawled.append(movie)
crawl_append(t) ==
    /\ tasks[t].pc = "append"
    /\ crawled' = Append(crawled, tasks[t].movie)
    /\ tasks' = [tasks EXCEPT ![t].pc = next_link(t, 1), ![t].i = 1]
    /\ UNCHANGED <<not_crawled, nc_type, added_ids, crawled_counter,
                   futures, mainpc, raised, crawled_file, nc_file>>
    /\ UNCHANGED <<indexVars, libraryVars>>

\* `if link not in self.not_crawled:` (read without a lock)
link_is_new(link) == link \notin Range(not_crawled)

crawl_test_link(t) ==
    /\ tasks[t].pc = "test_link"
    /\ tasks' = [tasks EXCEPT ![t] =
         IF link_is_new(links_of(t)[tasks[t].i])
         THEN [@ EXCEPT !.pc = "push_link"]
         ELSE [@ EXCEPT !.pc = next_link(t, tasks[t].i + 1), !.i = @ + 1]]
    /\ UNCHANGED <<not_crawled, nc_type, crawled, added_ids, crawled_counter,
                   futures, mainpc, raised, crawled_file, nc_file>>
    /\ UNCHANGED <<indexVars, libraryVars>>

\* with self.add_queue_lock: self.not_crawled.append(link)
crawl_push_link(t) ==
    /\ tasks[t].pc = "push_link"
    /\ not_crawled' = Append(not_crawled, links_of(t)[tasks[t].i])
    /\ tasks' = [tasks EXCEPT ![t].pc = "add_id"]
    /\ UNCHANGED <<nc_type, crawled, added_ids, crawled_counter,
                   futures, mainpc, raised, crawled_file, nc_file>>
    /\ UNCHANGED <<indexVars, libraryVars>>

\* with self.add_list_lock: self.added_ids.add(self.get_id_from_URL(link))
crawl_add_id(t) ==
    /\ tasks[t].pc = "add_id"
    /\ LET id == get_id_from_URL(links_of(t)[tasks[t].i]) IN
       IF id = IndexError
       THEN /\ tasks' = [tasks EXCEPT ![t].pc = "failed"]
            /\ UNCHANGED added_ids
       ELSE /\ added_ids' = added_ids \cup {id}
            /\ tasks' = [tasks EXCEPT ![t].pc = next_link(t, tasks[t].i + 1), ![t].i = @ + 1]
    /\ UNCHANGED <<not_crawled, nc_type, crawled, crawled_counter,
                   futures, mainpc, raised, crawled_file, nc_file>>
    /\ UNCHANGED <<indexVars, libraryVars>>


----------------------------------------------------------------------------
(* Persistence of the crawl state *)

\* json.dump followed by json.load of one movie dict: every (review, rate)
\* tuple comes back as a two-element list; str, list and None are kept
json_round_trip(movie) ==
    [movie EXCEPT !.reviews =
        IF @ = None THEN None
        ELSE List([i \in DOMAIN @.v |-> List(@.v[i].v)])]

write_to_file_as_json ==
    /\ mainpc = "done"
    /\ crawled_file' = File([i \in DOMAIN crawled |-> json_round_trip(crawled[i])])
    /\ nc_file' = File(not_crawled)
    /\ UNCHANGED <<not_crawled, nc_type, crawled, added_ids, crawled_counter,
                   futures, tasks, mainpc, raised>>
    /\ UNCHANGED <<indexVars, libraryVars>>

\* open(..., 'r') of a missing file raises FileNotFoundError, which nothing
\* in read_from_file_as_json catches
read_from_file_as_json ==
    /\ mainpc \in {"idle", "done"}
    /\ IF crawled_file = Missing
       THEN /\ raised' = "FileNotFoundError"
            /\ mainpc' = "crashed"
            /\ UNCHANGED <<crawled, not_crawled, nc_type, added_ids>>
       ELSE IF nc_file = Missing
       THEN /\ crawled' = crawled_file.content
            /\ raised' = "FileNotFoundError"
            /\ mainpc' = "crashed"
            /\ UNCHANGED <<not_crawled, nc_type, added_ids>>
       ELSE /\ crawled' = crawled_file.content
            /\ not_crawled' = nc_file.content
            /\ nc_type' = "list"
            /\ added_ids' = added_ids
                  \cup {crawled_file.content[i].id : i \in DOMAIN crawled_file.content}
                  \cup {get_id_from_URL(nc_file.content[i]) : i \in DOMAIN nc_file.content}
            /\ UNCHANGED <<raised, mainpc>>
    /\ UNCHANGED <<crawled_counter, futures, tasks, crawled_file, nc_file>>
    /\ UNCHANGED <<indexVars, libraryVars>>

NextCrawler ==
    \/ start_crawling
    \/ while_test
    \/ pop_and_submit
    \/ if_empty
    \/ wait_futures
    \/ final_wait
    \/ \E t \in DOMAIN tasks, response \in DetailResponses : crawl_fetch(t, response)
    \/ \E t \in DOMAIN tasks : crawl_append(t)
    \/ \E t \in DOMAIN tasks : crawl_test_link(t)
    \/ \E t \in DOMAIN tasks : crawl_push_link(t)
    \/ \E t \in DOMAIN tasks : crawl_add_id(t)
    \/ write_to_file_as_json
    \/ read_from_file_as_json


----------------------------------------------------------------------------
(* Index: strings, dicts and documents *)

\* A string that the code splits on whitespace (a star name, a summary) is
\* the sequence of its words; a genre is one word.  str.lower() on the words
\* of the model:
lower(w) ==
    CASE w = "Tim" -> "tim"
      [] w = "Henry" -> "henry"
      [] w = "Drama" -> "drama"
      [] w = "Good" -> "good"
      [] OTHER -> w

lower_all(ws) == [i \in DOMAIN ws |-> lower(ws[i])]

\* list.count(x)
count(l, x) == Cardinality({i \in DOMAIN l : l[i] = x})

\* the parts of all the strings of a list, in order
RECURSIVE flatten(_)
flatten(ss) == IF ss = <<>> THEN <<>> ELSE Head(ss) \o flatten(Tail(ss))

\* a Python dict is a function from its keys
EmptyDict == [k \in {} |-> 0]
setitem(d, k, v) == [x \in DOMAIN d \cup {k} |-> IF x = k THEN v ELSE d[x]]
delitem(d, k) == [x \in DOMAIN d \ {k} |-> d[x]]

RECURSIVE SetToSeq(_)
SetToSeq(S) ==
    IF S = {} THEN <<>>
    ELSE LET x == CHOOSE y \in S : TRUE IN <<x>> \o SetToSeq(S \ {x})

Fields == {"documents", "stars", "genres", "summaries"}   \* Indexes enum values
PostingFields == {"stars", "genres", "summaries"}

\* the record check_add_remove_is_correct adds and removes
dummy_document ==
    [ id |-> "100",
      stars |-> List(<< <<"tim">>, <<"henry">> >>),
      genres |-> List(<<"drama", "crime">>),
      summaries |-> List(<< <<"good">> >>) ]

\* documents of the corpora; two of them share an id, as two records of a
\* crawl can
DocA ==
    [ id |-> "d1",
      stars |-> List(<< <<"Tim", "Henry">>, <<"tim">> >>),
      genres |-> List(<<"Drama", "crime">>),
      summaries |-> List(<< <<"Good", "good">>, <<"good">> >>) ]
DocB ==
    [ id |-> "d2", stars |-> None, genres |-> List(<<"crime">>), summaries |-> None ]
DocC ==
    [ id |-> "d2",
      stars |-> List(<< <<"henry">> >>),
      genres |-> List(<<>>),
      summaries |-> List(<< <<"bad">> >>) ]

DocPool == {DocA, DocB}
Corpora == SeqsUpTo(DocPool, MaxDocs)
AddDocs == {dummy_document, DocA, DocB, DocC}
DocIds == {"100", "d1", "d2"}

----------------------------------------------------------------------------
(* Index: construction *)

\* idx[term][id] = n, creating idx[term] = {} first when the term is new
put(idx, term, id, n) ==
    setitem(idx, term, setitem(IF term \in DOMAIN idx THEN idx[term] ELSE EmptyDict, id, n))

\* mutant of put_counts: the frequency written is one less than the count
RECURSIVE put_counts_less_one(_, _, _, _)
put_counts_less_one(idx, id, parts, k) ==
    IF k > Len(parts) THEN idx
    ELSE put_counts_less_one(put(idx, parts[k], id, count(parts, parts[k]) - 1),
                             id, parts, k + 1)

\* for part in parts: idx[part][id] = parts.count(part)
RECURSIVE put_counts(_, _, _, _)
put_counts(idx, id, parts, k) ==
    IF k > Len(parts) THEN idx
    ELSE put_counts(put(idx, parts[k], id, count(parts, parts[k])), id, parts, k + 1)

\* index_genres lower-cases doc['genres'] in place, and the DOCUMENTS index
\* holds the same dict objects
lowered_genres(doc) == [doc EXCEPT !.genres = List(lower_all(@.v))]

RECURSIVE index_documents_loop(_, _, _)
index_documents_loop(docs, k, current_index) ==
    IF k > Len(docs) THEN current_index
    ELSE index_documents_loop(docs, k + 1,
             setitem(current_index, docs[k].id, lowered_genres(docs[k])))
index_documents(docs) == index_documents_loop(docs, 1, EmptyDict)

\* mutant of index_stars_loop: a document without stars is skipped and the
\* loop goes on
RECURSIVE index_stars_loop_skipping(_, _, _)
index_stars_loop_skipping(docs, k, star_indexes) ==
    IF k > Len(docs) THEN star_indexes
    ELSE IF docs[k].stars = None THEN index_stars_loop_skipping(docs, k + 1, star_indexes)
    ELSE index_stars_loop_skipping(docs, k + 1,
             put_counts(star_indexes, docs[k].id, lower_all(flatten(docs[k].stars.v)), 1))

\* `if stars is None: return star_indexes` leaves the loop over the corpus
RECURSIVE index_stars_loop(_, _, _)
index_stars_loop(docs, k, star_indexes) ==
    IF k > Len(docs) THEN star_indexes
    ELSE IF docs[k].stars = None THEN star_indexes
    ELSE index_stars_loop(docs, k + 1,
             put_counts(star_indexes, docs[k].id, lower_all(flatten(docs[k].stars.v)), 1))
index_stars(docs) == index_stars_loop(docs, 1, EmptyDict)

RECURSIVE index_genres_loop(_, _, _)
index_genres_loop(docs, k, genre_indexes) ==
    IF k > Len(docs) THEN genre_indexes
    ELSE index_genres_loop(docs, k + 1,
             put_counts(genre_indexes, docs[k].id, lower_all(docs[k].genres.v), 1))
index_genres(docs) == index_genres_loop(docs, 1, EmptyDict)

\* one summary at a time: the words of the lower-cased summary are counted
\* within it and written into the index, over what an earlier summary wrote
RECURSIVE put_summaries(_, _, _, _)
put_summaries(idx, id, summaries, j) ==
    IF j > Len(summaries) THEN idx
    ELSE put_summaries(put_counts(idx, id, lower_all(summaries[j]), 1), id, summaries, j + 1)

RECURSIVE index_summaries_loop(_, _, _)
index_summaries_loop(docs, k, current_index) ==
    IF k > Len(docs) THEN current_index
    ELSE index_summaries_loop(docs, k + 1,
             IF docs[k].summaries = None THEN current_index
             ELSE put_summaries(current_index, docs[k].id, docs[k].summaries.v, 1))
index_summaries(docs) == index_summaries_loop(docs, 1, EmptyDict)

\* Index.__init__
Index(docs) ==
    [ documents |-> index_documents(docs),
      stars |-> index_stars(docs),
      genres |-> index_genres(docs),
      summaries |-> index_summaries(docs) ]

----------------------------------------------------------------------------
(* Index: incremental update *)

\* if id not in idx[word]: idx[word][id] = words.count(word)
RECURSIVE add_words(_, _, _, _)
add_words(idx, id, words, k) ==
    IF k > Len(words) THEN idx
    ELSE LET word == words[k]
             postings == IF word \in DOMAIN idx THEN idx[word] ELSE EmptyDict
         IN add_words(setitem(idx, word,
                        IF id \in DOMAIN postings THEN postings
                        ELSE setitem(postings, id, count(words, word))),
                      id, words, k + 1)

RECURSIVE add_summaries(_, _, _, _)
add_summaries(idx, id, summaries, j) ==
    IF j > Len(summaries) THEN idx
    ELSE add_summaries(add_words(idx, id, summaries[j], 1), id, summaries, j + 1)

\* add_document_to_index: the index it leaves and the exception it raises
\* ("" = none); iterating over a None field raises TypeError after the
\* earlier fields have been indexed
add_document_to_index(idx, document) ==
    LET id == document.id
        s1 == [idx EXCEPT !.documents = setitem(@, id, document)]
    IN IF document.stars = None THEN [index |-> s1, raise |-> "TypeError"]
       ELSE
       LET s2 == [s1 EXCEPT !.stars =
                     put_counts(@, id, lower_all(flatten(document.stars.v)), 1)]
       IN IF document.genres = None THEN [index |-> s2, raise |-> "TypeError"]
          ELSE
          LET lowered == lowered_genres(document)
              s3 == [s2 EXCEPT !.documents = setitem(@, id, lowered),
                               !.genres = put_counts(@, id, lowered.genres.v, 1)]
          IN IF document.summaries = None THEN [index |-> s3, raise |-> "TypeError"]
             ELSE [index |-> [s3 EXCEPT !.summaries =
                                 add_summaries(@, id, document.summaries.v, 1)],
                   raise |-> ""]

\* mutant of remove_postings: the postings of the removed id are left behind
remove_postings_kept(idx, document_id) == idx

\* del idx[term][document_id] for every term whose postings hold the id
remove_postings(idx, document_id) ==
    [term \in DOMAIN idx |-> delitem(idx[term], document_id)]

\* mutant of remove_document_from_index: a term whose posting map became
\* empty is dropped
remove_document_from_index_pruning(idx, document_id) ==
    LET pruned(field) ==
            LET left == remove_postings(field, document_id)
            IN [term \in {t \in DOMAIN left : left[t] # EmptyDict} |-> left[term]]
    IN [ documents |-> delitem(idx.documents, document_id),
         stars |-> pruned(idx.stars),
         genres |-> pruned(idx.genres),
         summaries |-> pruned(idx.summaries) ]

remove_document_from_index(idx, document_id) ==
    [ documents |-> delitem(idx.documents, document_id),
      stars |-> remove_postings(idx.stars, document_id),
      genres |-> remove_postings(idx.genres, document_id),
      summaries |-> remove_postings(idx.summaries, document_id) ]

\* mutant of get_posting_list: the word is not looked up, the keys of the
\* field index are returned
get_posting_list_of_field(idx, word, index_type) ==
    IF index_type \in DOMAIN idx THEN SetToSeq(DOMAIN idx[index_type]) ELSE <<>>

\* get_posting_list: any exception of the lookup is swallowed into []
get_posting_list(idx, word, index_type) ==
    IF index_type \in DOMAIN idx /\ word \in DOMAIN idx[index_type]
    THEN SetToSeq(DOMAIN idx[index_type][word])
    ELSE <<>>

----------------------------------------------------------------------------
(* Index: persistence.  A JSON text is a tree of tagged values; an object *)
(* is the sequence of its (key, value) members in the order written.      *)

JNull == [json |-> "null"]
JString(x) == [json |-> "string", v |-> x]
JNumber(n) == [json |-> "number", v |-> n]
JArray(a) == [json |-> "array", v |-> a]
JObject(members) == [json |-> "object", v |-> members]

\* mutant of dump_list: None is written as an empty array
dump_list_none_as_empty(x) ==
    JArray(IF x = None THEN <<>> ELSE [i \in DOMAIN x.v |-> JString(x.v[i])])

\* json.dump of a list of strings or None
dump_list(x) ==
    IF x = None THEN JNull ELSE JArray([i \in DOMAIN x.v |-> JString(x.v[i])])

dump_document(doc) ==
    JObject(<< <<"id", JString(doc.id)>>,
               <<"stars", dump_list(doc.stars)>>,
               <<"genres", dump_list(doc.genres)>>,
               <<"summaries", dump_list(doc.summaries)>> >>)

dump_postings(postings) ==
    LET ks == SetToSeq(DOMAIN postings)
    IN JObject([i \in DOMAIN ks |-> <<ks[i], JNumber(postings[ks[i]])>>])

\* json.dump(self.index[index_name], f)
json_dump(d, index_name) ==
    LET ks == SetToSeq(DOMAIN d)
    IN JObject([i \in DOMAIN ks |->
          <<ks[i], IF index_name = "documents" THEN dump_document(d[ks[i]])
                   ELSE dump_postings(d[ks[i]])>>])

\* json.load: an object becomes a dict, member by member (a repeated key
\* keeps its last value); null becomes None
RECURSIVE json_load(_)
RECURSIVE load_members(_, _, _)
load_members(members, k, d) ==
    IF k > Len(members) THEN d
    ELSE load_members(members, k + 1, setitem(d, members[k][1], json_load(members[k][2])))
json_load(j) ==
    CASE j.json = "null" -> None
      [] j.json = "string" -> j.v
      [] j.json = "number" -> j.v
      [] j.json = "array" -> List([i \in DOMAIN j.v |-> json_load(j.v[i])])
      [] j.json = "object" -> load_members(j.v, 1, EmptyDict)

\* check_if_index_loaded_correctly: self.index[index_type] == loaded_index
check_if_index_loaded_correctly(idx, index_type, loaded_index) ==
    idx[index_type] = loaded_index

----------------------------------------------------------------------------
(* Index: the methods as actions *)

Return(v) == [v |-> v, kind |-> "return"]
Raise(e) == [v |-> e, kind |-> "raise"]
NoCall == [op |-> "__init__"]

InitIndexOf(docs) ==
    /\ preprocessed_documents = [k \in DOMAIN docs |-> lowered_genres(docs[k])]
    /\ index = Index(docs)
    /\ index_files = [f \in Fields |-> Missing]
    /\ call = NoCall
    /\ prev_call = NoCall
    /\ ret = Return(None)
    /\ index_before = Index(docs)
    /\ ncalls = 0

Called(c, r) ==
    /\ ncalls < MaxCalls
    /\ ncalls' = ncalls + 1
    /\ prev_call' = call
    /\ call' = c
    /\ ret' = r

AddDocument(document) ==
    LET r == add_document_to_index(index, document) IN
    /\ Called([op |-> "add_document_to_index", document |-> document],
              IF r.raise = "" THEN Return(None) ELSE Raise(r.raise))
    /\ index_before' = index
    /\ index' = r.index
    /\ UNCHANGED <<preprocessed_documents, index_files>>
    /\ UNCHANGED <<crawlerVars, libraryVars>>

RemoveDocument(document_id) ==
    /\ Called([op |-> "remove_document_from_index", document_id |-> document_id],
              Return(None))
    /\ index' = remove_document_from_index(index, document_id)
    /\ UNCHANGED <<preprocessed_documents, index_files, index_before>>
    /\ UNCHANGED <<crawlerVars, libraryVars>>

GetPostingList(word, index_type) ==
    /\ Called([op |-> "get_posting_list", word |-> word, index_type |-> index_type],
              Return(get_posting_list(index, word, index_type)))
    /\ UNCHANGED <<preprocessed_documents, index, index_files, index_before>>
    /\ UNCHANGED <<crawlerVars, libraryVars>>

\* store_index(path, index_name): ValueError for a name that is not a field
StoreIndex(index_name) ==
    /\ Called([op |-> "store_index", index_name |-> index_name],
              IF index_name \in DOMAIN index THEN Return(None) ELSE Raise("ValueError"))
    /\ index_files' = IF index_name \in DOMAIN index
                      THEN [index_files EXCEPT ![index_name] =
                               File(json_dump(index[index_name], index_name))]
                      ELSE index_files
    /\ UNCHANGED <<preprocessed_documents, index, index_before>>
    /\ UNCHANGED <<crawlerVars, libraryVars>>

\* load_index(path + '/' + index_name): open() of a missing file raises
LoadIndex(index_name) ==
    /\ Called([op |-> "load_index", index_name |-> index_name],
              IF index_files[index_name] = Missing THEN Raise("FileNotFoundError")
              ELSE Return(json_load(index_files[index_name].content)))
    /\ UNCHANGED <<preprocessed_documents, index, index_files, index_before>>
    /\ UNCHANGED <<crawlerVars, libraryVars>>

\* "titles" is not the name of an index
FieldNames == Fields \cup {"titles"}
Queries == { <<"tim", "stars">>, <<"crime", "genres">>, <<"good", "summaries">>,
             <<"d1", "documents">>, <<"nope", "stars">>, <<"tim", "genres">>,
             <<"tim", "titles">> }

NextIndex ==
    \/ \E document \in AddDocs : AddDocument(document)
    \/ \E document_id \in DocIds : RemoveDocument(document_id)
    \/ \E q \in Queries : GetPostingList(q[1], q[2])
    \/ \E index_name \in FieldNames : StoreIndex(index_name)
    \/ \E index_name \in Fields : LoadIndex(index_name)

----------------------------------------------------------------------------
(* Numbers.  The result of a Python true division is the fraction in       *)
(* lowest terms; the int 0 and the float 0.0 are the same number.          *)

RECURSIVE gcd(_, _)
gcd(a, b) == IF b = 0 THEN a ELSE gcd(b, a % b)

\* n / d   for n >= 0 and d > 0
Fraction(n, d) == LET g == gcd(n, d) IN [num |-> n \div g, den |-> d \div g]
Zero == [num |-> 0, den |-> 1]
One == [num |-> 1, den |-> 1]
Number(n) == [num |-> n, den |-> 1]

frac_add(x, y) == Fraction(x.num * y.den + y.num * x.den, x.den * y.den)
frac_mul(x, y) == Fraction(x.num * y.num, x.den * y.den)
\* x / y   for y > 0
frac_div(x, y) == Fraction(x.num * y.den, x.den * y.num)
frac_gt(x, y) == x.num * y.den > y.num * x.den

----------------------------------------------------------------------------
(* SpellCorrection.  A str is the sequence of its characters.              *)

\* str.lower() on the characters of the model
char_lower(c) ==
    CASE c = "A" -> "a"
      [] c = "B" -> "b"
      [] c = "C" -> "c"
      [] OTHER -> c

str_lower(s) == [i \in DOMAIN s |-> char_lower(s[i])]

\* str.split() and, on words of letters, word_tokenize: the maximal runs of
\* characters other than the blank, in order
RECURSIVE split_from(_, _, _)
split_from(s, i, word) ==
    IF i > Len(s) THEN (IF word = <<>> THEN <<>> ELSE <<word>>)
    ELSE IF s[i] = " "
         THEN (IF word = <<>> THEN <<>> ELSE <<word>>) \o split_from(s, i + 1, <<>>)
         ELSE split_from(s, i + 1, Append(word, s[i]))

split(s) == split_from(s, 1, <<>>)
word_tokenize(s) == split(s)

\* shingle_word(word, k): the set of the substrings word[i : i + k]
shingle_word(word, k) ==
    IF Len(word) < k THEN {word}
    ELSE {SubSeq(word, i, i + k - 1) : i \in 1..(Len(word) - k + 1)}

\* mutant of jaccard_score: the intersection is divided by the size of the
\* first set
jaccard_score_of_first(first_set, second_set) ==
    IF Cardinality(first_set) = 0 THEN Zero
    ELSE Fraction(Cardinality(first_set \cap second_set), Cardinality(first_set))

\* SpellCorrection.jaccard_score
jaccard_score(first_set, second_set) ==
    IF Cardinality(first_set \cup second_set) = 0 THEN Zero
    ELSE Fraction(Cardinality(first_set \cap second_set),
                  Cardinality(first_set \cup second_set))

\* MinHashLSH.jaccard_score
LSH_jaccard_score(first_set, second_set) ==
    LET intersection == Cardinality(first_set \cap second_set)
        union == Cardinality(first_set \cup second_set)
    IN IF union = 0 THEN Zero ELSE Fraction(intersection, union)

\* dict.keys() of a dict kept as the sequence of its items
keys(items) == {items[i][1] : i \in DOMAIN items}

\* shingling_and_counting: the two dicts, filled word by word
RECURSIVE shingling_and_counting_loop(_, _, _, _)
shingling_and_counting_loop(words, k, shingled, counter) ==
    IF k > Len(words) THEN [all_shingled_words |-> shingled, word_counter |-> counter]
    ELSE LET word == words[k]
             new == word \notin keys(shingled)
             shingled1 == IF new THEN Append(shingled, <<word, shingle_word(word, 2)>>)
                          ELSE shingled
             counter1 == IF new THEN setitem(counter, word, 0) ELSE counter
         IN shingling_and_counting_loop(words, k + 1, shingled1,
                                        setitem(counter1, word, counter1[word] + 1))

shingling_and_counting(all_documents) ==
    shingling_and_counting_loop(
        flatten([d \in DOMAIN all_documents |-> split(all_documents[d])]),
        1, <<>>, EmptyDict)

\* sorted(items, key=lambda x: x[1], reverse=True): the sort is stable, so
\* items of equal score keep their order
sorted_by_score(items) ==
    LET before(i, j) == \/ frac_gt(items[i][2], items[j][2])
                        \/ items[i][2] = items[j][2] /\ i < j
        rank(i) == 1 + Cardinality({j \in DOMAIN items : before(j, i)})
    IN [r \in DOMAIN items |-> items[CHOOSE i \in DOMAIN items : rank(i) = r]]

\* find_nearest_words: sorted_words[i] for i in range(5) raises IndexError
\* when the vocabulary has fewer than 5 words
find_nearest_words(shingled, word) ==
    LET shingled_word == shingle_word(word, 2)
        similarity_scores ==
            [i \in DOMAIN shingled |->
                <<shingled[i][1], jaccard_score(shingled_word, shingled[i][2])>>]
        sorted_words == sorted_by_score(similarity_scores)
    IN IF Len(sorted_words) < 5 THEN Raise("IndexError")
       ELSE Return([i \in 1..5 |-> sorted_words[i][1]])

\* the loop over `nearest` in spell_check: tmp = 0; part = "";
\* if score > tmp: tmp = score; part = near
RECURSIVE select_part(_, _, _, _, _)
select_part(nearest, k, shingles, tmp, part) ==
    IF k > Len(nearest) THEN part
    ELSE LET near == nearest[k]
             score == jaccard_score(shingles, shingle_word(near, 2))
         IN IF frac_gt(score, tmp) THEN select_part(nearest, k + 1, shingles, score, near)
            ELSE select_part(nearest, k + 1, shingles, tmp, part)

\* the loop over the tokens in spell_check: the string built so far and
\* what was appended for each token; an exception of find_nearest_words
\* ends the call
RECURSIVE spell_check_loop(_, _, _, _, _, _)
spell_check_loop(shingled, counter, tokens, k, final_result, parts) ==
    IF k > Len(tokens) THEN [ret |-> Return(final_result), parts |-> parts]
    ELSE LET word == tokens[k] IN
         IF word \in DOMAIN counter
         THEN spell_check_loop(shingled, counter, tokens, k + 1,
                               final_result \o word, Append(parts, word))
         ELSE LET nearest == find_nearest_words(shingled, word) IN
              IF nearest.kind = "raise" THEN [ret |-> nearest, parts |-> parts]
              ELSE IF Len(nearest.v) > 0
              THEN LET part == select_part(nearest.v, 1, shingle_word(word, 2), Zero, <<>>)
                   IN spell_check_loop(shingled, counter, tokens, k + 1,
                                       final_result \o <<" ">> \o part,
                                       Append(parts, <<" ">> \o part))
              ELSE spell_check_loop(shingled, counter, tokens, k + 1,
                                    final_result \o <<" ">> \o word,
                                    Append(parts, <<" ">> \o word))

spell_check(shingled, counter, query) ==
    spell_check_loop(shingled, counter, word_tokenize(str_lower(query)), 1, <<>>, <<>>)

----------------------------------------------------------------------------
(* SpellCorrection: the corpora it is built from and the calls made on it *)

cat == <<"c", "a", "t">>
cab == <<"c", "a", "b">>
car == <<"c", "a", "r">>
bat == <<"b", "a", "t">>
bar == <<"b", "a", "r">>
Blank == <<" ">>

\* all_documents: no document, a vocabulary of two words, one of five words
NoDocuments == <<>>
TwoWordDocuments == << cat \o Blank \o cab >>
FiveWordDocuments == << cat \o Blank \o cab \o Blank \o car,
                        bat \o Blank \o bar \o Blank \o cat >>
SpellCorpora == {NoDocuments, TwoWordDocuments, FiveWordDocuments}

\* misspelled words: "ca" and "bab" share a shingle with words of the
\* vocabulary, "cot" shares none
MisspelledWords == { <<"c", "a">>, <<"b", "a", "b">>, <<"c", "o", "t">> }

SpellQueries ==
    { <<>>, cat, <<"C", "a", "t">> \o Blank \o cab, <<"c", "a">>, <<"c", "o", "t">>,
      <<"b", "a", "b">> \o Blank \o cat, bar \o Blank \o <<"c", "a">> \o Blank \o bat }

\* the shingle sets jaccard_score is called with
ShingleSets == SUBSET (shingle_word(cat, 2) \cup shingle_word(cab, 2))

\* SpellCorrection.__init__
InitSpellCorrection(all_documents) ==
    LET r == shingling_and_counting(all_documents) IN
    /\ all_shingled_words = r.all_shingled_words
    /\ word_counter = r.word_counter
    /\ spell_call = NoCall
    /\ spell_ret = Return(None)
    /\ spell_parts = <<>>

JaccardScore(first_set, second_set) ==
    /\ spell_call' = [op |-> "jaccard_score", first_set |-> first_set,
                      second_set |-> second_set]
    /\ spell_ret' = Return(jaccard_score(first_set, second_set))
    /\ spell_parts' = <<>>
    /\ UNCHANGED <<all_shingled_words, word_counter>>
    /\ UNCHANGED <<crawlerVars, indexVars, evalVars, snippetVars, scorerVars, svmVars, metadataVars, lshVars>>

LSHJaccardScore(first_set, second_set) ==
    /\ spell_call' = [op |-> "MinHashLSH.jaccard_score", first_set |-> first_set,
                      second_set |-> second_set]
    /\ spell_ret' = Return(LSH_jaccard_score(first_set, second_set))
    /\ spell_parts' = <<>>
    /\ UNCHANGED <<all_shingled_words, word_counter>>
    /\ UNCHANGED <<crawlerVars, indexVars, evalVars, snippetVars, scorerVars, svmVars, metadataVars, lshVars>>

FindNearestWords(word) ==
    /\ spell_call' = [op |-> "find_nearest_words", word |-> word]
    /\ spell_ret' = find_nearest_words(all_shingled_words, word)
    /\ spell_parts' = <<>>
    /\ UNCHANGED <<all_shingled_words, word_counter>>
    /\ UNCHANGED <<crawlerVars, indexVars, evalVars, snippetVars, scorerVars, svmVars, metadataVars, lshVars>>

SpellCheck(query) ==
    LET r == spell_check(all_shingled_words, word_counter, query) IN
    /\ spell_call' = [op |-> "spell_check", query |-> query]
    /\ spell_ret' = r.ret
    /\ spell_parts' = r.parts
    /\ UNCHANGED <<all_shingled_words, word_counter>>
    /\ UNCHANGED <<crawlerVars, indexVars, evalVars, snippetVars, scorerVars, svmVars, metadataVars, lshVars>>

NextSpellCorrection ==
    \/ \E first_set \in ShingleSets, second_set \in ShingleSets :
           JaccardScore(first_set, second_set)
    \/ \E first_set \in ShingleSets, second_set \in ShingleSets :
           LSHJaccardScore(first_set, second_set)
    \/ \E word \in MisspelledWords : FindNearestWords(word)
    \/ \E query \in SpellQueries : SpellCheck(query)

----------------------------------------------------------------------------
(* Evaluation.  A document id is a str; lists and strs are tagged values,  *)
(* because the methods iterate over whatever they are given.               *)

\* the characters of the strs of the model
chars(s) ==
    CASE s = "" -> <<>>
      [] s = "ab" -> <<"a", "b">>
      [] OTHER -> <<s>>

\* the items a for loop, set() or len() sees: the elements of a list, the
\* one-character strs of a str
iter(x) == IF x.py = "list" THEN x.v ELSE [i \in DOMAIN chars(x.v) |-> Str(chars(x.v)[i])]
len(x) == Len(iter(x))
set(x) == Range(iter(x))
\* x[i] for a Python index i
getitem(x, i) == iter(x)[i + 1]

RECURSIVE frac_sum(_)
frac_sum(xs) == IF xs = <<>> THEN Zero ELSE frac_add(Head(xs), frac_sum(Tail(xs)))

\* total / total_queries if total_queries > 0 else 0.0
mean(xs) == IF Len(xs) > 0 THEN frac_div(frac_sum(xs), Number(Len(xs))) ELSE Zero

\* [doc for doc in retrieved_documents if doc in relevant_documents]
relevant_retrieved(relevant_documents, retrieved_documents) ==
    SelectSeq(iter(retrieved_documents), LAMBDA doc : doc \in relevant_documents)

\* mutant of query_precision: the hits are divided by the number of
\* relevant documents
query_precision_over_relevant(relevant_documents, retrieved_documents) ==
    IF Cardinality(relevant_documents) > 0
    THEN Fraction(Len(relevant_retrieved(relevant_documents, retrieved_documents)),
                  Cardinality(relevant_documents))
    ELSE Zero

query_precision(relevant_documents, retrieved_documents) ==
    IF len(retrieved_documents) > 0
    THEN Fraction(Len(relevant_retrieved(relevant_documents, retrieved_documents)),
                  len(retrieved_documents))
    ELSE Zero

query_recall(relevant_documents, retrieved_documents) ==
    IF Cardinality(relevant_documents) > 0
    THEN Fraction(Len(relevant_retrieved(relevant_documents, retrieved_documents)),
                  Cardinality(relevant_documents))
    ELSE Zero

calculate_precision(actual, predicted) ==
    mean([i \in 1..len(actual) |->
             query_precision(set(getitem(actual, i - 1)), getitem(predicted, i - 1))])

calculate_recall(actual, predicted) ==
    mean([i \in 1..len(actual) |->
             query_recall(set(getitem(actual, i - 1)), getitem(predicted, i - 1))])

\* 2 * (precision * recall) / (precision + recall) if (precision + recall) > 0 else 0.0
calculate_F1(actual, predicted) ==
    LET precision == calculate_precision(actual, predicted)
        recall == calculate_recall(actual, predicted)
    IN IF frac_gt(frac_add(precision, recall), Zero)
       THEN frac_div(frac_mul(Number(2), frac_mul(precision, recall)),
                     frac_add(precision, recall))
       ELSE Zero

\* the loop over enumerate(retrieved_documents, start=1) in calculate_AP
RECURSIVE precision_at_k_loop(_, _, _, _, _)
precision_at_k_loop(relevant_documents, retrieved, j, num_relevant_docs, precision_at_k) ==
    IF j > Len(retrieved)
    THEN [num_relevant_docs |-> num_relevant_docs, precision_at_k |-> precision_at_k]
    ELSE IF retrieved[j] \in relevant_documents
    THEN precision_at_k_loop(relevant_documents, retrieved, j + 1, num_relevant_docs + 1,
             frac_add(precision_at_k, Fraction(num_relevant_docs + 1, j)))
    ELSE precision_at_k_loop(relevant_documents, retrieved, j + 1, num_relevant_docs,
                             precision_at_k)

\* mutant of average_precision: the sum is divided by the number of relevant
\* documents found, not by the number of relevant documents
average_precision_over_found(relevant_documents, retrieved_documents) ==
    LET r == precision_at_k_loop(relevant_documents, iter(retrieved_documents), 1, 0, Zero)
    IN IF r.num_relevant_docs > 0
       THEN frac_div(r.precision_at_k, Number(r.num_relevant_docs))
       ELSE Zero

\* what one query adds to total_AP
average_precision(relevant_documents, retrieved_documents) ==
    LET r == precision_at_k_loop(relevant_documents, iter(retrieved_documents), 1, 0, Zero)
    IN IF r.num_relevant_docs > 0
       THEN frac_div(r.precision_at_k, Number(Cardinality(relevant_documents)))
       ELSE Zero

\* calculate_AP: actual[i] and predicted[i] are the lists of query i
calculate_AP(actual, predicted) ==
    mean([i \in 1..len(actual) |->
             average_precision(set(getitem(actual, i - 1)), getitem(predicted, i - 1))])

calculate_MAP(actual, predicted) ==
    mean([i \in 1..len(actual) |->
             calculate_AP(List(<<getitem(actual, i - 1)>>), List(<<getitem(predicted, i - 1)>>))])

\* The class body defines calculate_DCG twice: (self, relevance_scores) at
\* line 167 and (self, actual, predicted) at line 186.  The second def
\* rebinds the name, so self.calculate_DCG takes two arguments and a call
\* with one raises TypeError.
calculate_DCG_method(nargs) == IF nargs = 2 THEN "calculate_DCG" ELSE "TypeError"

\* the body of the first def, which no call reaches
RECURSIVE discounted_loop(_, _)
discounted_loop(relevance_scores, i) ==
    IF i > Len(relevance_scores) - 1 THEN Zero
    ELSE frac_add(Fraction(relevance_scores[i + 1], i + 1),
                  discounted_loop(relevance_scores, i + 1))

calculate_DCG_of_scores(relevance_scores) ==
    frac_add(IF relevance_scores # <<>> THEN Number(relevance_scores[1]) ELSE Zero,
             discounted_loop(relevance_scores, 1))

\* [1 if doc in relevant_documents else 0 for doc in retrieved_documents]
relevance_scores_of(relevant_documents, retrieved_documents) ==
    [j \in DOMAIN iter(retrieved_documents) |->
        IF iter(retrieved_documents)[j] \in relevant_documents THEN 1 ELSE 0]

\* dcg = self.calculate_DCG(relevance_scores)   (one argument)
dcg_of_query(relevant_documents, retrieved_documents) ==
    IF calculate_DCG_method(1) = "TypeError" THEN Raise("TypeError")
    ELSE Return(calculate_DCG_of_scores(
                    relevance_scores_of(relevant_documents, retrieved_documents)))

\* calculate_DCG(actual, predicted): the first query raises
calculate_DCG(actual, predicted) ==
    LET dcgs == [i \in 1..len(actual) |->
                    dcg_of_query(set(getitem(actual, i - 1)), getitem(predicted, i - 1))]
    IN IF \E i \in DOMAIN dcgs : dcgs[i].kind = "raise" THEN Raise("TypeError")
       ELSE Return(mean([i \in DOMAIN dcgs |-> dcgs[i].v]))

\* sum(1 / (i + 1) for i in range(num_relevant_docs))
calculate_IDCG(num_relevant_docs) ==
    frac_sum([i \in 1..num_relevant_docs |-> Fraction(1, i)])

calculate_NDCG(actual, predicted) ==
    LET ndcg(i) ==
            LET relevant_documents == set(getitem(actual, i - 1))
                dcg == dcg_of_query(relevant_documents, getitem(predicted, i - 1))
                idcg == calculate_IDCG(Cardinality(relevant_documents))
            IN IF dcg.kind = "raise" THEN dcg
               ELSE Return(IF frac_gt(idcg, Zero) THEN frac_div(dcg.v, idcg) ELSE Zero)
        ndcgs == [i \in 1..len(actual) |-> ndcg(i)]
    IN IF \E i \in DOMAIN ndcgs : ndcgs[i].kind = "raise" THEN Raise("TypeError")
       ELSE Return(mean([i \in DOMAIN ndcgs |-> ndcgs[i].v]))

\* calculate_RR: for i, doc in enumerate(predicted, start=1):
\*                   if doc in actual: return 1 / i
calculate_RR(actual, predicted) ==
    LET hits == {i \in DOMAIN iter(predicted) : iter(predicted)[i] \in set(actual)}
    IN IF hits = {} THEN Zero
       ELSE Fraction(1, CHOOSE i \in hits : \A j \in hits : i <= j)

calculate_MRR(actual, predicted) ==
    mean([i \in 1..len(actual) |->
             calculate_RR(getitem(actual, i - 1), getitem(predicted, i - 1))])

\* calculate_evaluation: the metrics in the order computed; an exception
\* ends the call before anything is printed or logged
calculate_evaluation(actual, predicted) ==
    LET dcg == calculate_DCG(actual, predicted)
        ndcg == calculate_NDCG(actual, predicted)
    IN IF dcg.kind = "raise" THEN dcg
       ELSE IF ndcg.kind = "raise" THEN ndcg
       ELSE Return([Precision |-> calculate_precision(actual, predicted),
                    Recall |-> calculate_recall(actual, predicted),
                    F1 |-> calculate_F1(actual, predicted),
                    AP |-> calculate_AP(actual, predicted),
                    MAP |-> calculate_MAP(actual, predicted),
                    DCG |-> dcg.v,
                    NDCG |-> ndcg.v,
                    RR |-> calculate_RR(actual, predicted),
                    MRR |-> calculate_MRR(actual, predicted)])

----------------------------------------------------------------------------
(* Evaluation: the judgments and result lists the methods are called with *)

Ids_(l) == List([i \in DOMAIN l |-> Str(l[i])])

\* (relevant ids, retrieved ids) of one query
QueryPairs ==
    { <<Ids_(<<"a", "b">>), Ids_(<<"a", "c">>)>>,
      <<Ids_(<<"a", "b", "c">>), Ids_(<<"x", "a", "y", "b">>)>>,
      <<Ids_(<<>>), Ids_(<<"a">>)>>,
      <<Ids_(<<"a">>), Ids_(<<>>)>>,
      <<Ids_(<<"a">>), Ids_(<<"x">>)>>,
      <<Ids_(<<"a", "a", "b">>), Ids_(<<"b", "a">>)>>,
      <<Ids_(<<"a">>), Ids_(<<"a", "a">>)>>,
      <<Ids_(<<"c">>), Ids_(<<"x", "y", "c">>)>> }

\* actual and predicted of up to MaxQueries queries
Judgments == SeqsUpTo(QueryPairs, MaxQueries)
actual_of(qs) == List([i \in DOMAIN qs |-> qs[i][1]])
predicted_of(qs) == List([i \in DOMAIN qs |-> qs[i][2]])

\* Evaluation.__init__
InitEvaluation ==
    /\ eval_call = NoCall
    /\ eval_ret = Return(None)

\* the methods that loop over range(len(actual)) read predicted[i], which
\* raises IndexError when predicted is the shorter list
per_query(actual, predicted, r) ==
    IF len(predicted) < len(actual) THEN Raise("IndexError") ELSE r

Evaluated(op, actual, predicted, r) ==
    /\ eval_call' = [op |-> op, actual |-> actual, predicted |-> predicted]
    /\ eval_ret' = r
    /\ UNCHANGED <<crawlerVars, indexVars, spellVars, snippetVars, scorerVars, svmVars, metadataVars, lshVars>>

CalculatePrecision(actual, predicted) ==
    Evaluated("calculate_precision", actual, predicted,
              per_query(actual, predicted, Return(calculate_precision(actual, predicted))))

CalculateRecall(actual, predicted) ==
    Evaluated("calculate_recall", actual, predicted,
              per_query(actual, predicted, Return(calculate_recall(actual, predicted))))

CalculateF1(actual, predicted) ==
    Evaluated("calculate_F1", actual, predicted,
              per_query(actual, predicted, Return(calculate_F1(actual, predicted))))

CalculateAP(actual, predicted) ==
    Evaluated("calculate_AP", actual, predicted,
              per_query(actual, predicted, Return(calculate_AP(actual, predicted))))

CalculateMAP(actual, predicted) ==
    Evaluated("calculate_MAP", actual, predicted,
              per_query(actual, predicted, Return(calculate_MAP(actual, predicted))))

CalculateDCG(actual, predicted) ==
    Evaluated("calculate_DCG", actual, predicted,
              per_query(actual, predicted, calculate_DCG(actual, predicted)))

CalculateNDCG(actual, predicted) ==
    Evaluated("calculate_NDCG", actual, predicted,
              per_query(actual, predicted, calculate_NDCG(actual, predicted)))

CalculateRR(actual, predicted) ==
    Evaluated("calculate_RR", actual, predicted, Return(calculate_RR(actual, predicted)))

CalculateMRR(actual, predicted) ==
    Evaluated("calculate_MRR", actual, predicted,
              per_query(actual, predicted, Return(calculate_MRR(actual, predicted))))

CalculateEvaluation(actual, predicted) ==
    Evaluated("calculate_evaluation", actual, predicted,
              per_query(actual, predicted, calculate_evaluation(actual, predicted)))

\* each method is called with the lists of several queries; calculate_AP
\* and calculate_RR also with the two lists of one query
NextEvaluation ==
    \/ \E qs \in Judgments : CalculatePrecision(actual_of(qs), predicted_of(qs))
    \/ \E qs \in Judgments : CalculateRecall(actual_of(qs), predicted_of(qs))
    \/ \E qs \in Judgments : CalculateF1(actual_of(qs), predicted_of(qs))
    \/ \E qs \in Judgments : CalculateAP(actual_of(qs), predicted_of(qs))
    \/ \E q \in QueryPairs : CalculateAP(q[1], q[2])
    \/ \E qs \in Judgments : CalculateMAP(actual_of(qs), predicted_of(qs))
    \/ \E qs \in Judgments : CalculateDCG(actual_of(qs), predicted_of(qs))
    \/ \E qs \in Judgments : CalculateNDCG(actual_of(qs), predicted_of(qs))
    \/ \E q \in QueryPairs : CalculateRR(q[1], q[2])
    \/ \E qs \in Judgments : CalculateMRR(actual_of(qs), predicted_of(qs))
    \/ \E qs \in Judgments : CalculateEvaluation(actual_of(qs), predicted_of(qs))

----------------------------------------------------------------------------
(* Snippet.  Strings are sequences of characters, as in SpellCorrection.   *)

\* the words of stopwords.words('english') that the model uses
stop_words == { <<"a">>, <<"a", "t">>, <<"b", "e">> }

\* " ".join(terms)
RECURSIVE join(_)
join(terms) ==
    IF terms = <<>> THEN <<>>
    ELSE IF Len(terms) = 1 THEN terms[1]
    ELSE terms[1] \o Blank \o join(Tail(terms))

\* str.strip() of a string whose only whitespace is the blank
RECURSIVE strip(_)
strip(s) ==
    IF s = <<>> THEN s
    ELSE IF Head(s) = " " THEN strip(Tail(s))
    ELSE IF s[Len(s)] = " " THEN strip(SubSeq(s, 1, Len(s) - 1))
    ELSE s

\* list.index(x): the Python index of the first occurrence
index_of(l, x) == (CHOOSE i \in DOMAIN l : l[i] = x /\ \A j \in 1..(i - 1) : l[j] # x) - 1

\* l[start:end] for 0 <= start and end <= len(l)
slice(l, start, end) == SubSeq(l, start + 1, end)

max(a, b) == IF a >= b THEN a ELSE b
min(a, b) == IF a <= b THEN a ELSE b

remove_stop_words_from_query(query) ==
    join(SelectSeq(split(query), LAMBDA word : str_lower(word) \notin stop_words))

\* the windows around the first occurrence of each match, one after another
RECURSIVE snippet_words_loop(_, _, _, _)
snippet_words_loop(doc_tokens, matches, k, side) ==
    IF k > Len(matches) THEN <<>>
    ELSE LET match_index == index_of(doc_tokens, matches[k])
             start_index == max(0, match_index - side)
             end_index == min(Len(doc_tokens), match_index + side + 1)
         IN slice(doc_tokens, start_index, end_index)
            \o snippet_words_loop(doc_tokens, matches, k + 1, side)

Stars3 == <<"*", "*", "*">>

\* final_snippet += f" ***{word}***" if word.lower() in matches else f" {word}"
render(snippet_words, matches) ==
    flatten([i \in DOMAIN snippet_words |->
                IF str_lower(snippet_words[i]) \in Range(matches)
                THEN Blank \o Stars3 \o snippet_words[i] \o Stars3
                ELSE Blank \o snippet_words[i]])

\* find_snippet: (final_snippet, not_exist_words)
find_snippet(side, doc, query) ==
    LET doc_tokens == split(doc)
        query_tokens == split(remove_stop_words_from_query(query))
        matches == SelectSeq(query_tokens, LAMBDA token : token \in Range(doc_tokens))
        not_exist_words == SelectSeq(query_tokens, LAMBDA token : token \notin Range(doc_tokens))
        snippet_words == snippet_words_loop(doc_tokens, matches, 1, side)
    IN <<strip(render(snippet_words, matches)), not_exist_words>>

(* Snippet: the documents and queries it is called with *)

Cab == <<"C", "a", "b">>
SnippetDocs ==
    { <<>>,
      <<"a">> \o Blank \o cab \o Blank \o <<"a", "t">> \o Blank \o bat \o Blank \o car,
      Cab \o Blank \o bat \o Blank \o cab,
      bar \o Blank \o car \o Blank \o cat \o Blank \o Cab \o Blank \o bat \o Blank \o bar }
SnippetQueries ==
    { <<>>, cab, Cab, <<"a">> \o Blank \o cab, car \o Blank \o bar, <<"A">> \o Blank \o bat,
      cab \o Blank \o cab, cat \o Blank \o <<"b", "e">> \o Blank \o bat }
\* number_of_words_on_each_side given to Snippet(...); 5 is the default
Sides == {1, 2, 5}

\* Snippet.__init__
InitSnippet(side) ==
    /\ number_of_words_on_each_side = side
    /\ snippet_call = NoCall
    /\ snippet_ret = Return(None)

RemoveStopWordsFromQuery(query) ==
    /\ snippet_call' = [op |-> "remove_stop_words_from_query", query |-> query]
    /\ snippet_ret' = Return(remove_stop_words_from_query(query))
    /\ UNCHANGED number_of_words_on_each_side
    /\ UNCHANGED <<crawlerVars, indexVars, spellVars, evalVars, scorerVars, svmVars, metadataVars, lshVars>>

FindSnippet(doc, query) ==
    /\ snippet_call' = [op |-> "find_snippet", query |-> query, doc |-> doc]
    /\ snippet_ret' = Return(find_snippet(number_of_words_on_each_side, doc, query))
    /\ UNCHANGED number_of_words_on_each_side
    /\ UNCHANGED <<crawlerVars, indexVars, spellVars, evalVars, scorerVars, svmVars, metadataVars, lshVars>>

NextSnippet ==
    \/ \E query \in SnippetQueries : RemoveStopWordsFromQuery(query)
    \/ \E doc \in SnippetDocs, query \in SnippetQueries : FindSnippet(doc, query)

----------------------------------------------------------------------------
(* Scorer.  Logarithms are kept symbolic: np.log(x) is [ln |-> x] for a    *)
(* fraction x other than 1.  A BM25 score, a sum of idf * coefficient, is  *)
(* the linear form that maps each logarithm argument to its coefficient.   *)
(* A weight vector of the vector space model is the sequence of its        *)
(* weights, each one the tf part, the factor it was multiplied by, and     *)
(* whether the vector was divided by its norm.                             *)

\* x - y   for x >= y
frac_sub(x, y) == Fraction(x.num * y.den - y.num * x.den, x.den * y.den)

np_log(x) == IF x = One THEN Zero ELSE [ln |-> x]

\* score += idf * coefficient
add_product(score, idf_value, coefficient) ==
    IF idf_value = Zero \/ coefficient = Zero THEN score
    ELSE LET a == idf_value.ln IN
         [x \in DOMAIN score \cup {a} |->
             IF x = a THEN (IF a \in DOMAIN score THEN frac_add(score[a], coefficient)
                            ELSE coefficient)
             ELSE score[x]]

\* mutant of get_list_of_documents: only the documents of the first query
\* term are kept
get_list_of_documents_of_first_term(idx, query) ==
    IF query # <<>> /\ query[1] \in DOMAIN idx THEN DOMAIN idx[query[1]] ELSE {}

\* get_list_of_documents: list(set(list_of_documents)), as a set
get_list_of_documents(idx, query) ==
    UNION {DOMAIN idx[query[i]] : i \in {j \in DOMAIN query : query[j] \in DOMAIN idx}}

\* mutant of get_idf: the value is computed from the index on every call
get_idf_recomputed(idx, memo, number_of_documents, term) ==
    LET fq == IF term \in DOMAIN idx THEN Cardinality(DOMAIN idx[term]) ELSE 0
        value == IF fq = 0 THEN Zero ELSE np_log(Fraction(number_of_documents, fq))
    IN [idf |-> value, memo |-> setitem(memo, term, value)]

\* get_idf: the value returned and self.idf after the call
get_idf(idx, memo, number_of_documents, term) ==
    IF term \in DOMAIN memo THEN [idf |-> memo[term], memo |-> memo]
    ELSE LET fq == IF term \in DOMAIN idx THEN Cardinality(DOMAIN idx[term]) ELSE 0
             value == IF fq = 0 THEN Zero ELSE np_log(Fraction(number_of_documents, fq))
         IN [idf |-> value, memo |-> setitem(memo, term, value)]

\* get_query_tfs
get_query_tfs(query) == [term \in Range(query) |-> count(query, term)]

\* the first loop of get_vector_space_model_score: self.idf after get_idf
\* has been called for the terms query[k], query[k+1], ...
RECURSIVE idf_loop(_, _, _, _, _)
idf_loop(idx, memo, number_of_documents, query, k) ==
    IF k > Len(query) THEN memo
    ELSE idf_loop(idx, get_idf(idx, memo, number_of_documents, query[k]).memo,
                  number_of_documents, query, k + 1)

\* term_freq[i] += 0.1
plus_tenth(n) == Fraction(10 * n + 1, 10)

Weight(f, x, factor) == [f |-> f, x |-> x, factor |-> factor]
Vector(type, weights, normalized) ==
    [type |-> type, weights |-> weights, normalized |-> normalized]

\* document side of get_vector_space_model_score; dividing by the norm, a
\* numpy float, turns a Python list into an ndarray
doc_score(term_freq, idfs, document_method) ==
    LET tf_part == [i \in DOMAIN term_freq |->
                       Weight(IF document_method[1] = "n" THEN "raw" ELSE "log1p",
                              term_freq[i], One)]
        type1 == IF document_method[1] = "n" THEN "list" ELSE "ndarray"
        scaled == IF document_method[2] = "t"
                  THEN [i \in DOMAIN tf_part |-> [tf_part[i] EXCEPT !.factor = idfs[i]]]
                  ELSE tf_part
        type2 == IF document_method[2] = "t" THEN "ndarray" ELSE type1
    IN IF document_method[3] = "c" THEN Vector("ndarray", scaled, TRUE)
       ELSE Vector(type2, scaled, FALSE)

\* query side: with 't' the product is taken of query_term_freq, not of
\* query_score
query_score(query_term_freq, idfs, query_method) ==
    LET tf_part == [i \in DOMAIN query_term_freq |->
                       Weight(IF query_method[1] = "n" THEN "raw" ELSE "log1p",
                              query_term_freq[i], One)]
        type1 == IF query_method[1] = "n" THEN "list" ELSE "ndarray"
        scaled == IF query_method[2] = "t"
                  THEN [i \in DOMAIN query_term_freq |->
                           Weight("raw", query_term_freq[i], idfs[i])]
                  ELSE tf_part
        type2 == IF query_method[2] = "t" THEN "ndarray" ELSE type1
    IN IF query_method[3] = "c" THEN Vector("ndarray", scaled, TRUE)
       ELSE Vector(type2, scaled, FALSE)

\* get_vector_space_model_score: np.dot(doc_score, query_score), and
\* self.idf after the call
get_vector_space_model_score(idx, memo, number_of_documents, query, query_tfs, document_id, document_method, query_method) ==
    LET memo1 == idf_loop(idx, memo, number_of_documents, query, 1)
        term_freq == [i \in DOMAIN query |->
                         plus_tenth(IF query[i] \in DOMAIN idx /\ document_id \in DOMAIN idx[query[i]]
                                    THEN idx[query[i]][document_id] ELSE 0)]
        idfs == [i \in DOMAIN query |-> memo1[query[i]]]
        query_term_freq == [i \in DOMAIN query |-> plus_tenth(query_tfs[query[i]])]
    IN [score |-> [dot |-> <<doc_score(term_freq, idfs, document_method),
                            query_score(query_term_freq, idfs, query_method)>>],
        memo |-> memo1]

\* str.split(".")
RECURSIVE split_on(_, _, _, _)
split_on(s, sep, i, part) ==
    IF i > Len(s) THEN <<part>>
    ELSE IF s[i] = sep THEN <<part>> \o split_on(s, sep, i + 1, <<>>)
    ELSE split_on(s, sep, i + 1, Append(part, s[i]))

\* the loop of compute_scores_with_vector_space_model over the documents
\* still to score
RECURSIVE vector_space_model_documents(_, _, _, _, _, _, _, _, _)
vector_space_model_documents(idx, memo, number_of_documents, query, query_tfs, doc_ids, document_method, query_method, scores) ==
    IF doc_ids = <<>> THEN [ret |-> Return(scores), memo |-> memo]
    ELSE LET r == get_vector_space_model_score(idx, memo, number_of_documents, query,
                      query_tfs, Head(doc_ids), document_method, query_method)
         IN vector_space_model_documents(idx, r.memo, number_of_documents, query, query_tfs,
                Tail(doc_ids), document_method, query_method,
                setitem(scores, Head(doc_ids), r.score))

compute_scores_with_vector_space_model(idx, memo, number_of_documents, query, method) ==
    LET methods == split_on(method, ".", 1, <<>>) IN
    vector_space_model_documents(idx, memo, number_of_documents, query,
        get_query_tfs(query), SetToSeq(get_list_of_documents(idx, query)),
        methods[1], methods[2], EmptyDict)

\* mutant of k_bm25: k = 2
k_bm25_of_two == Fraction(2, 1)

\* k = 1.2 and b = 0.75
k_bm25 == Fraction(6, 5)
b_bm25 == Fraction(3, 4)

\* the loop of get_okapi_bm25_score from query[i] on
RECURSIVE okapi_bm25_loop(_, _, _, _, _, _, _, _, _)
okapi_bm25_loop(idx, memo, number_of_documents, query, i, document_id, average_document_field_length, document_lengths, score) ==
    IF i > Len(query) THEN [score |-> score, memo |-> memo]
    ELSE LET term == query[i] IN
         IF term \in DOMAIN idx /\ document_id \in DOMAIN idx[term]
         THEN LET freq == Number(idx[term][document_id])
                  denumerator ==
                      frac_add(freq,
                          frac_mul(k_bm25,
                              frac_add(frac_sub(One, b_bm25),
                                  frac_div(frac_mul(b_bm25, Number(document_lengths[document_id])),
                                           average_document_field_length))))
                  r == get_idf(idx, memo, number_of_documents, term)
                  coefficient == frac_div(frac_mul(freq, frac_add(k_bm25, One)), denumerator)
              IN okapi_bm25_loop(idx, r.memo, number_of_documents, query, i + 1, document_id,
                                 average_document_field_length, document_lengths,
                                 add_product(score, r.idf, coefficient))
         ELSE okapi_bm25_loop(idx, memo, number_of_documents, query, i + 1, document_id,
                              average_document_field_length, document_lengths, score)

get_okapi_bm25_score(idx, memo, number_of_documents, query, document_id, average_document_field_length, document_lengths) ==
    okapi_bm25_loop(idx, memo, number_of_documents, query, 1, document_id,
                    average_document_field_length, document_lengths, EmptyDict)

\* the loop of compute_scores_with_okapi_bm25 over the documents still to score
RECURSIVE okapi_bm25_documents(_, _, _, _, _, _, _, _)
okapi_bm25_documents(idx, memo, number_of_documents, query, doc_ids, average_document_field_length, document_lengths, scores) ==
    IF doc_ids = <<>> THEN [ret |-> Return(scores), memo |-> memo]
    ELSE LET r == get_okapi_bm25_score(idx, memo, number_of_documents, query, Head(doc_ids),
                                       average_document_field_length, document_lengths)
         IN okapi_bm25_documents(idx, r.memo, number_of_documents, query, Tail(doc_ids),
                                 average_document_field_length, document_lengths,
                                 setitem(scores, Head(doc_ids), r.score))

compute_scores_with_okapi_bm25(idx, memo, number_of_documents, query, average_document_field_length, document_lengths) ==
    okapi_bm25_documents(idx, memo, number_of_documents, query,
                         SetToSeq(get_list_of_documents(idx, query)),
                         average_document_field_length, document_lengths, EmptyDict)

----------------------------------------------------------------------------
(* The Scorer object and the calls made on it *)

\* indexes handed to Scorer(index, number_of_documents): term -> {doc id: tf}
NoPostings == [d \in {} |-> 0]
ScorerIndexes == {
    [index |-> [t \in {} |-> NoPostings], number_of_documents |-> 0],
    [index |-> ("good" :> ("d1" :> 2 @@ "d2" :> 1) @@ "bad" :> ("d2" :> 1)
                @@ "gone" :> NoPostings),
     number_of_documents |-> 2],
    [index |-> ("good" :> ("d1" :> 1 @@ "d2" :> 1 @@ "d3" :> 1)
                @@ "bad" :> ("d3" :> 2) @@ "gone" :> NoPostings),
     number_of_documents |-> 3] }

ScorerTerms == {"good", "bad", "gone", "nope"}
ScorerQueries == {<<>>, <<"good">>, <<"bad">>, <<"gone">>, <<"nope">>,
                  <<"good", "bad">>, <<"bad", "good">>, <<"bad", "bad">>,
                  <<"nope", "good">>, <<"gone", "bad">>}

\* SMART codes "lnc.ltc", "ltn.ltn", "nnn.nnn", "ntc.ntc", "nnc.nnc"
ScorerMethods == { <<"l", "n", "c", ".", "l", "t", "c">>,
                   <<"l", "t", "n", ".", "l", "t", "n">>,
                   <<"n", "n", "n", ".", "n", "n", "n">>,
                   <<"n", "t", "c", ".", "n", "t", "c">>,
                   <<"n", "n", "c", ".", "n", "n", "c">> }

DocumentLengths == ("d1" :> 2 @@ "d2" :> 4 @@ "d3" :> 3)
AverageLengths == {Number(2), Number(3)}

\* Scorer.__init__
InitScorer(idx, number_of_documents) ==
    /\ scorer_index = idx
    /\ idf = EmptyDict
    /\ N = number_of_documents
    /\ scorer_call = NoCall
    /\ scorer_ret = Return(None)

GetListOfDocuments(query) ==
    /\ scorer_call' = [op |-> "get_list_of_documents", query |-> query]
    /\ scorer_ret' = Return(get_list_of_documents(scorer_index, query))
    /\ UNCHANGED <<scorer_index, idf, N>>
    /\ UNCHANGED <<crawlerVars, indexVars, spellVars, evalVars, snippetVars, svmVars, metadataVars, lshVars>>

GetIdf(term) ==
    LET r == get_idf(scorer_index, idf, N, term) IN
    /\ scorer_call' = [op |-> "get_idf", query |-> <<term>>]
    /\ scorer_ret' = Return(r.idf)
    /\ idf' = r.memo
    /\ UNCHANGED <<scorer_index, N>>
    /\ UNCHANGED <<crawlerVars, indexVars, spellVars, evalVars, snippetVars, svmVars, metadataVars, lshVars>>

ComputeScoresWithVectorSpaceModel(query, method) ==
    LET r == compute_scores_with_vector_space_model(scorer_index, idf, N, query, method) IN
    /\ scorer_call' = [op |-> "compute_scores_with_vector_space_model",
                       query |-> query, method |-> method]
    /\ scorer_ret' = r.ret
    /\ idf' = r.memo
    /\ UNCHANGED <<scorer_index, N>>
    /\ UNCHANGED <<crawlerVars, indexVars, spellVars, evalVars, snippetVars, svmVars, metadataVars, lshVars>>

ComputeScoresWithOkapiBM25(query, average_document_field_length, document_lengths) ==
    LET r == compute_scores_with_okapi_bm25(scorer_index, idf, N, query,
                 average_document_field_length, document_lengths) IN
    /\ scorer_call' = [op |-> "compute_scores_with_okapi_bm25", query |-> query,
                       average_document_field_length |-> average_document_field_length]
    /\ scorer_ret' = r.ret
    /\ idf' = r.memo
    /\ UNCHANGED <<scorer_index, N>>
    /\ UNCHANGED <<crawlerVars, indexVars, spellVars, evalVars, snippetVars, svmVars, metadataVars, lshVars>>

GetOkapiBM25Score(query, document_id, average_document_field_length, document_lengths) ==
    LET r == get_okapi_bm25_score(scorer_index, idf, N, query, document_id,
                 average_document_field_length, document_lengths) IN
    /\ scorer_call' = [op |-> "get_okapi_bm25_score", query |-> query,
                       document_id |-> document_id,
                       average_document_field_length |-> average_document_field_length]
    /\ scorer_ret' = Return(r.score)
    /\ idf' = r.memo
    /\ UNCHANGED <<scorer_index, N>>
    /\ UNCHANGED <<crawlerVars, indexVars, spellVars, evalVars, snippetVars, svmVars, metadataVars, lshVars>>

\* self.index is the dict the caller passed in: the Index that owns it
\* writes a posting into it (add_document_to_index) ...
PostingAdded(term, document_id, tf) ==
    /\ scorer_index' = put(scorer_index, term, document_id, tf)
    /\ UNCHANGED <<idf, N, scorer_call, scorer_ret>>
    /\ UNCHANGED <<crawlerVars, indexVars, spellVars, evalVars, snippetVars, svmVars, metadataVars, lshVars>>

\* ... or deletes the postings of a document (remove_document_from_index)
PostingsRemoved(document_id) ==
    /\ scorer_index' = remove_postings(scorer_index, document_id)
    /\ UNCHANGED <<idf, N, scorer_call, scorer_ret>>
    /\ UNCHANGED <<crawlerVars, indexVars, spellVars, evalVars, snippetVars, svmVars, metadataVars, lshVars>>

NextScorer ==
    \/ \E query \in ScorerQueries : GetListOfDocuments(query)
    \/ \E term \in ScorerTerms : GetIdf(term)
    \/ \E query \in ScorerQueries, method \in ScorerMethods :
           ComputeScoresWithVectorSpaceModel(query, method)
    \/ \E query \in ScorerQueries, average \in AverageLengths :
           ComputeScoresWithOkapiBM25(query, average, DocumentLengths)
    \/ \E query \in ScorerQueries, document_id \in DOMAIN DocumentLengths,
          average \in AverageLengths :
           GetOkapiBM25Score(query, document_id, average, DocumentLengths)

----------------------------------------------------------------------------
(* SVMClassifier.  sklearn's SVC and classification_report are library     *)
(* code: a fitted SVC predicts one label per row, out of the classes it    *)
(* was fitted on; a classification report is kept as the pair of label     *)
(* vectors it was computed from.                                           *)

Array(a) == [py |-> "ndarray", v |-> a]

\* embeddings of one dimension, and the two sentiment labels
SvmRows == {<<0>>, <<1>>}
SvmLabels == {0, 1}
FeatureMatrices == [1..1 -> SvmRows] \cup [1..2 -> SvmRows]
\* training data with both classes present
TrainingLabels == {y \in [1..2 -> SvmLabels] : Range(y) = SvmLabels}

\* sklearn.metrics.classification_report(y_true, y_pred)
classification_report(y_true, y_pred) == [y_pred |-> y_pred, y_true |-> y_true]

\* SVMClassifier.__init__: self.model = SVC(), not fitted
InitSVM ==
    /\ svc_fitted = None
    /\ svc_predicted = None
    /\ svm_call = NoCall
    /\ svm_ret = Return(None)

\* fit: self.model.fit(x, y)
Fit(x, y) ==
    /\ svm_call' = [op |-> "fit", x |-> x, y |-> Array(y)]
    /\ svc_fitted' = [classes |-> Range(y)]
    /\ svm_ret' = Return(None)
    /\ UNCHANGED svc_predicted
    /\ UNCHANGED <<crawlerVars, indexVars, spellVars, evalVars, snippetVars, scorerVars, metadataVars, lshVars>>

\* predict: self.model.predict(x) is evaluated and its value dropped; the
\* method has no return statement
Predict(x) ==
    /\ svm_call' = [op |-> "predict", x |-> x, y |-> None]
    /\ IF svc_fitted = None
       THEN /\ svm_ret' = Raise("NotFittedError")
            /\ UNCHANGED svc_predicted
       ELSE /\ \E labels \in [DOMAIN x -> svc_fitted.classes] :
                   svc_predicted' = Array(labels)
            /\ svm_ret' = Return(None)
    /\ UNCHANGED svc_fitted
    /\ UNCHANGED <<crawlerVars, indexVars, spellVars, evalVars, snippetVars, scorerVars, metadataVars, lshVars>>

\* prediction_report: classification_report(x, y), of the features against
\* the labels; sklearn either rejects a feature matrix as y_true or reports
\* on it
PredictionReport(x, y) ==
    /\ svm_call' = [op |-> "prediction_report", x |-> x, y |-> Array(y)]
    /\ \/ svm_ret' = Raise("ValueError")
       \/ svm_ret' = Return(classification_report(x, y))
    /\ UNCHANGED <<svc_fitted, svc_predicted>>
    /\ UNCHANGED <<crawlerVars, indexVars, spellVars, evalVars, snippetVars, scorerVars, metadataVars, lshVars>>

NextSVM ==
    \/ \E x \in [1..2 -> SvmRows], y \in TrainingLabels : Fit(x, y)
    \/ \E x \in FeatureMatrices : Predict(x)
    \/ \E x \in FeatureMatrices : \E y \in [DOMAIN x -> SvmLabels] :
           PredictionReport(x, y)

----------------------------------------------------------------------------
(* Metadata_index.  self.documents is the DOCUMENTS index read from its    *)
(* file: document id -> record.                                            *)

\* len(part.split()): a star name or a summary is the sequence of its
\* words, a genre is one word
field_length(where, part) == IF where = "genres" THEN 1 ELSE Len(part)

\* for part in movie[where]: sum += len(part.split())
RECURSIVE parts_loop(_, _, _, _)
parts_loop(where, parts, i, sum) ==
    IF i > Len(parts) THEN sum
    ELSE parts_loop(where, parts, i + 1, sum + field_length(where, parts[i]))

\* for movie in self.documents.values(): a field that is None is passed over
RECURSIVE movies_loop(_, _, _, _)
movies_loop(documents, where, ids, sum) ==
    IF ids = <<>> THEN sum
    ELSE LET movie == documents[Head(ids)] IN
         movies_loop(documents, where, Tail(ids),
                     IF movie[where] # None THEN parts_loop(where, movie[where].v, 1, sum)
                     ELSE sum)

\* mutant of get_average_document_field_length: the sum is divided by the
\* number of documents that have the field
get_average_document_field_length_of_present(documents, where) ==
    LET sum == movies_loop(documents, where, SetToSeq(DOMAIN documents), 0)
        present == {id \in DOMAIN documents : documents[id][where] # None}
    IN IF Cardinality(DOMAIN documents) = 0 THEN Raise("ZeroDivisionError")
       ELSE IF present = {} THEN Return(Zero)
       ELSE Return(Fraction(sum, Cardinality(present)))

\* get_average_document_field_length: sum / len(self.documents)
get_average_document_field_length(documents, where) ==
    LET sum == movies_loop(documents, where, SetToSeq(DOMAIN documents), 0)
    IN IF Cardinality(DOMAIN documents) = 0 THEN Raise("ZeroDivisionError")
       ELSE Return(Fraction(sum, Cardinality(DOMAIN documents)))

\* create_metadata_index: the first division by zero leaves the method
create_metadata_index(documents) ==
    LET average(where) == get_average_document_field_length(documents, where)
    IN IF average("stars").kind = "raise" THEN average("stars")
       ELSE Return([ averge_document_length |->
                        [where \in PostingFields |-> average(where).v],
                     document_count |-> Cardinality(DOMAIN documents) ])

\* a record with empty lists and a longer summary
DocD ==
    [ id |-> "d3", stars |-> List(<<>>), genres |-> List(<<>>),
      summaries |-> List(<< <<"a", "good", "bad">> >>) ]

\* the DOCUMENTS indexes an Index can have stored
DocumentIndexes == {index_documents(docs) : docs \in SeqsUpTo(AddDocs \cup {DocD}, 3)}

\* Metadata_index.__init__: an exception of create_metadata_index leaves no
\* object behind
InitMetadata(documents) ==
    /\ metadata_documents = documents
    /\ metadata_index = IF create_metadata_index(documents).kind = "raise" THEN None
                        ELSE create_metadata_index(documents).v
    /\ metadata_file = Missing
    /\ metadata_call = NoCall
    /\ metadata_ret = IF create_metadata_index(documents).kind = "raise"
                      THEN create_metadata_index(documents) ELSE Return(None)

\* the methods are called on a constructed object
Constructed == metadata_index # None

CreateMetadataIndex ==
    /\ Constructed
    /\ metadata_call' = [op |-> "create_metadata_index", where |-> ""]
    /\ metadata_ret' = create_metadata_index(metadata_documents)
    /\ UNCHANGED <<metadata_documents, metadata_index, metadata_file>>
    /\ UNCHANGED <<crawlerVars, indexVars, spellVars, evalVars, snippetVars, scorerVars, svmVars, lshVars>>

GetAverageDocumentFieldLength(where) ==
    /\ Constructed
    /\ metadata_call' = [op |-> "get_average_document_field_length", where |-> where]
    /\ metadata_ret' = get_average_document_field_length(metadata_documents, where)
    /\ UNCHANGED <<metadata_documents, metadata_index, metadata_file>>
    /\ UNCHANGED <<crawlerVars, indexVars, spellVars, evalVars, snippetVars, scorerVars, svmVars, lshVars>>

\* store_metadata_index: json.dump(self.metadata_index, file)
StoreMetadataIndex ==
    /\ Constructed
    /\ metadata_call' = [op |-> "store_metadata_index", where |-> ""]
    /\ metadata_ret' = Return(None)
    /\ metadata_file' = File(metadata_index)
    /\ UNCHANGED <<metadata_documents, metadata_index>>
    /\ UNCHANGED <<crawlerVars, indexVars, spellVars, evalVars, snippetVars, scorerVars, svmVars, lshVars>>

NextMetadata ==
    \/ CreateMetadataIndex
    \/ \E where \in PostingFields : GetAverageDocumentFieldLength(where)
    \/ StoreMetadataIndex

----------------------------------------------------------------------------
(* MinHashLSH.  A document is the sequence of its words; document ids are  *)
(* the 0-based positions of all_documents.  The hash of a band's column is *)
(* an abstract value: seeds are random, so any assignment of hash values   *)
(* to the documents can come out.                                          *)

\* shingle_document: the set of the pairs of adjacent words
shingle_document(document) ==
    {<<document[i], document[i + 1]>> : i \in 1..(Len(document) - 1)}

\* the loop of lsh_buckets over the documents of one band:
\* buckets[(band_id, hash_val)].append(doc_index), a new key going last
RECURSIVE lsh_buckets_band(_, _, _, _)
lsh_buckets_band(bucket_dict, band_id, band_hash, doc_index) ==
    IF doc_index >= Len(band_hash) THEN bucket_dict
    ELSE LET bucket_id == <<band_id, band_hash[doc_index + 1]>>
             old == IF bucket_id \in DOMAIN bucket_dict.at THEN bucket_dict.at[bucket_id] ELSE <<>>
         IN lsh_buckets_band(
                [keys |-> IF bucket_id \in DOMAIN bucket_dict.at THEN bucket_dict.keys
                          ELSE Append(bucket_dict.keys, bucket_id),
                 at |-> setitem(bucket_dict.at, bucket_id, Append(old, doc_index))],
                band_id, band_hash, doc_index + 1)

\* lsh_buckets: band_hashes[band_id + 1] is _hash_band of that band
RECURSIVE lsh_buckets_loop(_, _, _)
lsh_buckets_loop(bucket_dict, band_hashes, band_id) ==
    IF band_id >= Len(band_hashes) THEN bucket_dict
    ELSE lsh_buckets_loop(lsh_buckets_band(bucket_dict, band_id, band_hashes[band_id + 1], 0),
                          band_hashes, band_id + 1)
lsh_buckets(band_hashes) == lsh_buckets_loop([keys |-> <<>>, at |-> EmptyDict], band_hashes, 0)

\* the document ids there can be: the values of random.randint(0, len - 1)
LSHDocIds == 0..3

\* list(itertools.combinations(unique_doc_ids, 2)) for a set of small ints
RECURSIVE combinations_from(_, _, _)
combinations_from(ids, a, b) ==
    IF a \notin LSHDocIds THEN <<>>
    ELSE IF b \notin LSHDocIds THEN combinations_from(ids, a + 1, a + 2)
    ELSE (IF a \in ids /\ b \in ids THEN << <<a, b>> >> ELSE <<>>)
         \o combinations_from(ids, a, b + 1)
combinations(ids) == combinations_from(ids, 0, 1)

\* the pairs jaccard_similarity_test goes through, bucket after bucket
RECURSIVE candidate_pairs(_, _)
candidate_pairs(bucket_dict, k) ==
    IF k > Len(bucket_dict.keys) THEN <<>>
    ELSE LET unique_doc_ids == Range(bucket_dict.at[bucket_dict.keys[k]])
         IN (IF Cardinality(unique_doc_ids) > 1 THEN combinations(unique_doc_ids) ELSE <<>>)
            \o candidate_pairs(bucket_dict, k + 1)

\* documents and the lists of them handed to MinHashLSH
LSHDoc1 == <<"a", "b", "c">>
LSHDoc2 == <<"a", "b", "d">>
LSHDoc3 == <<"c", "d">>
LSHDocumentLists == { <<LSHDoc1, LSHDoc2>>, <<LSHDoc1, LSHDoc1>>,
                      <<LSHDoc1, LSHDoc2, LSHDoc3>>, <<LSHDoc3, LSHDoc1, LSHDoc1>>,
                      <<LSHDoc1, LSHDoc2, LSHDoc3, LSHDoc2>> }
\* the hash values of one band, per document
BandHashes(documents) == [1..1 -> [DOMAIN documents -> {0, 1}]]

\* MinHashLSH(documents, num_hashes) and the buckets of perform_lsh()
InitLSH(documents, band_hashes) ==
    /\ lsh_documents = documents
    /\ buckets = lsh_buckets(band_hashes)
    /\ lsh_pc = "idle"
    /\ lsh_pairs = <<>>
    /\ lsh_round = 0
    /\ random_doc_id = 0
    /\ current_score = 0
    /\ correct_near_duplicates = 0
    /\ all_near_duplicates = 0
    /\ lsh_ret = Return(None)

first_doc_id == lsh_pairs[1][1]
second_doc_id == lsh_pairs[1][2]

\* jaccard_similarity_test(buckets, all_documents) up to the first sampling
\* loop; without a candidate pair the division of the last line raises
JaccardSimilarityTest ==
    /\ lsh_pc = "idle"
    /\ LET pairs == candidate_pairs(buckets, 1) IN
       IF pairs = <<>>
       THEN /\ lsh_pc' = "raised"
            /\ lsh_ret' = Raise("ZeroDivisionError")
            /\ UNCHANGED <<lsh_pairs, random_doc_id, all_near_duplicates>>
       ELSE /\ lsh_pc' = "while"
            /\ lsh_pairs' = pairs
            /\ all_near_duplicates' = 1
            /\ random_doc_id' = pairs[1][1]
            /\ UNCHANGED lsh_ret
    /\ UNCHANGED <<lsh_documents, buckets, lsh_round, current_score, correct_near_duplicates>>
    /\ UNCHANGED <<crawlerVars, indexVars, spellVars, evalVars, snippetVars, scorerVars, svmVars, metadataVars>>

\* random.randint gives a document of the pair: the while loop goes round
SampleOfThePair(r) ==
    /\ lsh_pc = "while"
    /\ r <= Len(lsh_documents) - 1
    /\ r \in {first_doc_id, second_doc_id}
    /\ random_doc_id' = r
    /\ UNCHANGED <<lsh_documents, buckets, lsh_pc, lsh_pairs, lsh_round, current_score,
                   correct_near_duplicates, all_near_duplicates, lsh_ret>>
    /\ UNCHANGED <<crawlerVars, indexVars, spellVars, evalVars, snippetVars, scorerVars, svmVars, metadataVars>>

\* random.randint gives another document: the scores are compared; after
\* the fifth comparison the pair is counted and the next pair begins, or
\* the ratio is reported
SampleOfAnother(r) ==
    /\ lsh_pc = "while"
    /\ r <= Len(lsh_documents) - 1
    /\ r \notin {first_doc_id, second_doc_id}
    /\ LET first_shingled_doc == shingle_document(lsh_documents[first_doc_id + 1])
           second_shingled_doc == shingle_document(lsh_documents[second_doc_id + 1])
           random_shingled_doc == shingle_document(lsh_documents[r + 1])
           near_duplicated_jaccard_score ==
               LSH_jaccard_score(first_shingled_doc, second_shingled_doc)
           random_jaccard_score == LSH_jaccard_score(first_shingled_doc, random_shingled_doc)
           score == IF frac_gt(near_duplicated_jaccard_score, random_jaccard_score)
                    THEN current_score + 1 ELSE current_score
           correct == IF score = 5 THEN correct_near_duplicates + 1
                      ELSE correct_near_duplicates
       IN IF lsh_round < 4
          THEN /\ lsh_round' = lsh_round + 1
               /\ current_score' = score
               /\ random_doc_id' = first_doc_id
               /\ UNCHANGED <<lsh_pc, lsh_pairs, correct_near_duplicates,
                              all_near_duplicates, lsh_ret>>
          ELSE /\ lsh_round' = 0
               /\ current_score' = 0
               /\ correct_near_duplicates' = correct
               /\ lsh_pairs' = Tail(lsh_pairs)
               /\ IF Tail(lsh_pairs) = <<>>
                  THEN /\ lsh_pc' = "done"
                       /\ lsh_ret' = Return(Fraction(correct, all_near_duplicates))
                       /\ random_doc_id' = r
                       /\ UNCHANGED all_near_duplicates
                  ELSE /\ all_near_duplicates' = all_near_duplicates + 1
                       /\ random_doc_id' = lsh_pairs[2][1]
                       /\ UNCHANGED <<lsh_pc, lsh_ret>>
    /\ UNCHANGED <<lsh_documents, buckets>>
    /\ UNCHANGED <<crawlerVars, indexVars, spellVars, evalVars, snippetVars, scorerVars, svmVars, metadataVars>>

NextLSH ==
    \/ JaccardSimilarityTest
    \/ \E r \in LSHDocIds : SampleOfThePair(r)
    \/ \E r \in LSHDocIds : SampleOfAnother(r)

----------------------------------------------------------------------------
(* Specifications *)

\* the classifier, as constructed
InitRest == InitSVM /\ InitMetadata(EmptyDict) /\ InitLSH(<<>>, <<>>)

\* a crawl session, from a fresh IMDbCrawler; no Index is in use
NoIndex == [t \in {} |-> NoPostings]
InitLibraries ==
    /\ InitSpellCorrection(NoDocuments) /\ InitEvaluation /\ InitSnippet(5)
    /\ InitScorer(NoIndex, 0) /\ InitRest

InitCrawlSession == InitCrawler /\ InitIndexOf(<<>>) /\ InitLibraries
SpecCrawler == InitCrawlSession /\ [][NextCrawler]_vars

\* an Index built from a corpus and then used; no crawl is running
InitIndexUse ==
    InitCrawler /\ (\E docs \in Corpora : InitIndexOf(docs)) /\ InitLibraries
SpecIndex == InitIndexUse /\ [][NextIndex]_vars

\* a SpellCorrection built from a corpus and then used
InitSpellUse ==
    /\ InitCrawler /\ InitIndexOf(<<>>)
    /\ \E all_documents \in SpellCorpora : InitSpellCorrection(all_documents)
    /\ InitEvaluation /\ InitSnippet(5) /\ InitScorer(NoIndex, 0) /\ InitRest
SpecSpellCorrection == InitSpellUse /\ [][NextSpellCorrection]_vars

\* an Evaluation and the calls made on it
InitEvaluationUse == InitCrawler /\ InitIndexOf(<<>>) /\ InitLibraries
SpecEvaluation == InitEvaluationUse /\ [][NextEvaluation]_vars

\* a Snippet with some window and the calls made on it
InitSnippetUse ==
    /\ InitCrawler /\ InitIndexOf(<<>>)
    /\ InitSpellCorrection(NoDocuments) /\ InitEvaluation
    /\ \E side \in Sides : InitSnippet(side)
    /\ InitScorer(NoIndex, 0) /\ InitRest
SpecSnippet == InitSnippetUse /\ [][NextSnippet]_vars

\* a Scorer over some index and the calls made on it
InitScorerUse ==
    /\ InitCrawler /\ InitIndexOf(<<>>)
    /\ InitSpellCorrection(NoDocuments) /\ InitEvaluation /\ InitSnippet(5)
    /\ \E i \in ScorerIndexes : InitScorer(i.index, i.number_of_documents)
    /\ InitRest
SpecScorer == InitScorerUse /\ [][NextScorer]_vars

\* a Scorer whose index is updated by its owner between the calls
NextScorerLifetime ==
    \/ \E term \in ScorerTerms : GetIdf(term)
    \/ \E query \in {<<"good", "bad">>, <<"gone">>} :
           ComputeScoresWithOkapiBM25(query, Number(2), DocumentLengths)
    \/ PostingAdded("gone", "d1", 1)
    \/ PostingsRemoved("d2")
SpecScorerLifetime == InitScorerUse /\ [][NextScorerLifetime]_vars

\* an SVMClassifier and the calls made on it
InitSVMUse == InitCrawler /\ InitIndexOf(<<>>) /\ InitLibraries
SpecSVM == InitSVMUse /\ [][NextSVM]_vars

\* a Metadata_index over some stored DOCUMENTS index and the calls made on it
InitMetadataUse ==
    /\ InitCrawler /\ InitIndexOf(<<>>)
    /\ InitSpellCorrection(NoDocuments) /\ InitEvaluation /\ InitSnippet(5)
    /\ InitScorer(NoIndex, 0) /\ InitSVM /\ InitLSH(<<>>, <<>>)
    /\ \E documents \in DocumentIndexes : InitMetadata(documents)
SpecMetadata == InitMetadataUse /\ [][NextMetadata]_vars

\* a MinHashLSH over some documents, its buckets, and one run of the test
InitLSHUse ==
    /\ InitCrawler /\ InitIndexOf(<<>>)
    /\ InitSpellCorrection(NoDocuments) /\ InitEvaluation /\ InitSnippet(5)
    /\ InitScorer(NoIndex, 0) /\ InitSVM /\ InitMetadata(EmptyDict)
    /\ \E documents \in LSHDocumentLists : \E band_hashes \in BandHashes(documents) :
           InitLSH(documents, band_hashes)
SpecLSH == InitLSHUse /\ [][NextLSH]_vars

\* every step that can be taken is taken, and random.randint, asked again
\* and again, gives every value it can give
SpecLSHFair ==
    /\ SpecLSH
    /\ WF_vars(NextLSH)
    /\ SF_vars(\E r \in LSHDocIds : SampleOfAnother(r))

----------------------------------------------------------------------------
(* Claims about the crawler, under SpecCrawler *)

\* the URLs in the frontier or handed to a worker
PendingURLs == Range(not_crawled) \cup {tasks[t].URL : t \in DOMAIN tasks}

\* how many times a URL with this id has been enqueued and not yet dropped:
\* entries of the frontier plus submitted tasks
TimesEnqueued(id) ==
    Cardinality({i \in DOMAIN not_crawled : get_id_from_URL(not_crawled[i]) = id})
    + Cardinality({t \in DOMAIN tasks : get_id_from_URL(tasks[t].URL) = id})

\* C1: the crawled collection never holds two MovieRecords with the same id.
C1_NoTwoRecordsWithSameId ==
    \A i, j \in DOMAIN crawled : i # j => crawled[i].id # crawled[j].id

\* C2: in every state the id of every URL that is in the frontier or has
\* been handed to a worker is already in added_ids, and no id is enqueued
\* more than once.
C2_EnqueuedIdsAreInAddedIds ==
    /\ \A URL \in PendingURLs : get_id_from_URL(URL) \in added_ids
    /\ \A id \in Ids \cup {"title"} : TimesEnqueued(id) <= 1

\* C3: during a start_crawling run at most crawling_threshold URLs are
\* submitted to crawl_page_info, and crawled holds at most one record per
\* submitted URL, so at most crawling_threshold records.
C3_SubmissionsBoundedByThreshold ==
    /\ crawled_counter = Len(tasks)
    /\ Len(tasks) <= CrawlingThreshold
    /\ Len(crawled) <= Len(tasks)

\* C3 witness: the run ended because the threshold was reached, with
\* discovered links still waiting in the frontier.
C3_ThresholdReachedWithWorkLeft ==
    /\ mainpc = "done"
    /\ Len(tasks) = CrawlingThreshold
    /\ Len(not_crawled) > 0
    /\ Len(crawled) = CrawlingThreshold

\* C8: every MovieRecord in crawled is fully defaulted: each string field is
\* a str and each list field is a list, never None.
C8_RecordsAreFullyDefaulted ==
    \A i \in DOMAIN crawled :
        /\ \A f \in StringFields : crawled[i][f].py = "str"
        /\ \A f \in ListFields : crawled[i][f].py = "list"

\* C9: read_from_file_as_json on a fresh crawler with a persisted file
\* missing raises nothing and leaves crawled, not_crawled and added_ids empty.
C9_MissingFileIsNoPriorState ==
    [][ (read_from_file_as_json /\ mainpc = "idle"
            /\ (crawled_file = Missing \/ nc_file = Missing))
        => (raised' = "" /\ crawled' = <<>> /\ not_crawled' = <<>> /\ added_ids' = {}) ]_vars

\* the step of crawl_page_info(t) in which the fetch answered non-200 or
\* failed in transport
FetchFailed(t) == tasks[t].pc = "queued" /\ tasks'[t].pc \in {"done", "failed"}

\* C10: when the fetch of a detail URL answers non-200 or fails in
\* transport, the call adds nothing to crawled, not_crawled or added_ids,
\* raises nothing to the caller of start_crawling and leaves the main loop
\* where it is; the finished call never runs again.
C10_FailedFetchDropsTheURL ==
    [][ \A t \in DOMAIN tasks :
          /\ FetchFailed(t) =>
                /\ crawled' = crawled
                /\ not_crawled' = not_crawled
                /\ added_ids' = added_ids
                /\ raised' = raised /\ raised = ""
                /\ mainpc' = mainpc
                /\ tasks'[t].movie = NoMovie
          /\ Finished(t) => tasks'[t] = tasks[t] ]_vars

\* C10 witness: start_crawling returned without an error although one
\* fetch failed in transport and one answered non-200, after another URL
\* of the same run was crawled.
C10_RunCompletedDespiteFailedFetch ==
    /\ mainpc = "done"
    /\ raised = ""
    /\ \E t \in DOMAIN tasks : tasks[t].pc = "failed" /\ tasks[t].movie = NoMovie
    /\ \E t \in DOMAIN tasks : tasks[t].pc = "done" /\ tasks[t].movie # NoMovie
    /\ Len(crawled) >= 1

----------------------------------------------------------------------------
(* Claims about the Index, under SpecIndex *)

\* the terms add_document_to_index writes for a document in a field
add_terms(document, field) ==
    CASE document[field] = None -> {}
      [] field = "stars" -> Range(lower_all(flatten(document.stars.v)))
      [] field = "genres" -> Range(lower_all(document.genres.v))
      [] field = "summaries" -> Range(flatten(document.summaries.v))

\* the last two calls were add_document_to_index(record) and then
\* remove_document_from_index(record id), on an index without that id
AddThenRemove ==
    /\ call.op = "remove_document_from_index"
    /\ prev_call.op = "add_document_to_index"
    /\ prev_call.document.id = call.document_id
    /\ call.document_id \notin DOMAIN index_before.documents

\* C4 as stated: add_document_to_index(record) followed by
\* remove_document_from_index(record id) leaves all four indexes equal to
\* their state before the add, for any index without the record's id.
C4_AddThenRemoveRestoresIndex ==
    AddThenRemove => index = index_before

\* C4 amended: add then remove restores all four indexes exactly when every
\* term of the record is already a key of the corresponding field index.
C4_AddThenRemoveRestoresIndexOfKnownTerms ==
    ( /\ AddThenRemove
      /\ \A f \in PostingFields :
            add_terms(prev_call.document, f) \subseteq DOMAIN index_before[f] )
    => index = index_before

\* C4 witness: the synthetic record '100' was added to and removed from an
\* index that already had the terms tim, henry, drama, crime and good.
C4_DummyDocumentAddedAndRemoved ==
    /\ AddThenRemove
    /\ prev_call.document = dummy_document
    /\ {"tim", "henry"} \subseteq DOMAIN index_before.stars
    /\ {"drama", "crime"} \subseteq DOMAIN index_before.genres
    /\ "good" \in DOMAIN index_before.summaries
    /\ index_before.stars["tim"] # EmptyDict

\* C5: every posting of STARS, GENRES and SUMMARIES has a term frequency of
\* at least 1, after construction and after any adds and removes.
C5_PostingFrequenciesArePositive ==
    \A f \in PostingFields : \A term \in DOMAIN index[f] :
        \A id \in DOMAIN index[f][term] : index[f][term][id] >= 1

\* C5 witness: an index that went through an add and a remove and holds a
\* posting with frequency 2 and a posting of the added document.
C5_PostingsAfterAddAndRemove ==
    /\ prev_call.op = "add_document_to_index"
    /\ call.op = "remove_document_from_index"
    /\ call.document_id # prev_call.document.id
    /\ \E term \in DOMAIN index.stars : \E id \in DOMAIN index.stars[term] :
          index.stars[term][id] = 2
    /\ \E term \in DOMAIN index.stars : "100" \in DOMAIN index.stars[term]

C7_StoreThenLoadRoundTrip ==
    ( /\ call.op = "load_index"
      /\ prev_call.op = "store_index"
      /\ prev_call.index_name = call.index_name )
    => /\ ret.kind = "return"
       /\ check_if_index_loaded_correctly(index, call.index_name, ret.v)

\* C7 witness: the documents index, holding a record with absent fields and
\* a record added after construction, was stored and loaded back.
C7_DocumentsStoredAndLoaded ==
    /\ call.op = "load_index"
    /\ prev_call.op = "store_index"
    /\ prev_call.index_name = "documents"
    /\ call.index_name = "documents"
    /\ ret.kind = "return"
    /\ \E id \in DOMAIN index.documents : index.documents[id].stars = None
    /\ "100" \in DOMAIN index.documents

----------------------------------------------------------------------------
(* Claims about SpellCorrection, under SpecSpellCorrection *)

\* the tokens spell_check works on
QueryTokens == word_tokenize(str_lower(spell_call.query))

\* C11: jaccard_score(A, B) = jaccard_score(B, A); the score is 1 for two
\* identical non-empty sets, 0 for two disjoint non-empty sets and 0 when
\* both sets are empty.
C11_JaccardScoreIsSymmetric ==
    spell_call.op \in {"jaccard_score", "MinHashLSH.jaccard_score"} =>
        LET A == spell_call.first_set
            B == spell_call.second_set
            swapped == IF spell_call.op = "jaccard_score" THEN jaccard_score(B, A)
                       ELSE LSH_jaccard_score(B, A)
        IN /\ spell_ret = Return(swapped)
           /\ (A = B /\ A # {} => spell_ret.v = One)
           /\ (A # {} /\ B # {} /\ A \cap B = {} => spell_ret.v = Zero)
           /\ (A = {} /\ B = {} => spell_ret.v = Zero)

\* C11 witness: the score of the shingle set of "cat" against itself is 1.
C11_ScoreOfWordAgainstItself ==
    /\ spell_call.op = "jaccard_score"
    /\ spell_call.first_set = shingle_word(cat, 2)
    /\ spell_call.second_set = shingle_word(cat, 2)
    /\ spell_ret = Return(One)

\* C12: the string spell_check returns is the concatenation, in query
\* order, of one output token per query token, each preceded by exactly one
\* space; in-vocabulary tokens pass through unchanged.
C12_EveryTokenHasALeadingSpace ==
    (spell_call.op = "spell_check" /\ spell_ret.kind = "return") =>
        LET out == split(spell_ret.v) IN
        /\ Len(out) = Len(QueryTokens)
        /\ spell_ret.v = flatten([i \in DOMAIN out |-> Blank \o out[i]])
        /\ \A i \in DOMAIN out :
               QueryTokens[i] \in DOMAIN word_counter => out[i] = QueryTokens[i]

\* C13: when the vocabulary is empty, spell_check raises no error and keeps
\* every query token as-is in its output.
C13_EmptyVocabularyKeepsTheTokens ==
    (spell_call.op = "spell_check" /\ Len(all_shingled_words) = 0) =>
        /\ spell_ret.kind = "return"
        /\ split(spell_ret.v) = QueryTokens

\* C14: with a vocabulary of at least 5 words, every out-of-vocabulary token
\* is replaced by a vocabulary word, one of its 5 nearest candidates whose
\* Jaccard score against the token's shingles is maximal among those 5.
C14_BestOfFiveNearest ==
    (spell_call.op = "spell_check" /\ Len(all_shingled_words) >= 5) =>
        /\ spell_ret.kind = "return"
        /\ \A i \in DOMAIN QueryTokens :
               QueryTokens[i] \notin DOMAIN word_counter =>
                   LET shingles == shingle_word(QueryTokens[i], 2)
                       nearest == find_nearest_words(all_shingled_words, QueryTokens[i]).v
                       score(w) == jaccard_score(shingles, shingle_word(w, 2))
                       part == Tail(spell_parts[i])
                   IN /\ part \in keys(all_shingled_words)
                      /\ part \in Range(nearest)
                      /\ \A n \in DOMAIN nearest : ~frac_gt(score(nearest[n]), score(part))

----------------------------------------------------------------------------
(* Claims about Evaluation, under SpecEvaluation *)

\* the call returned x
Returned(x) == eval_ret.kind = "return" /\ eval_ret.v = x

\* the ids of a list of the call, untagged
ids_of(x) == [j \in DOMAIN x.v |-> x.v[j].v]
IsListOfLists(x) == x.py = "list" /\ \A i \in DOMAIN x.v : x.v[i].py = "list"
IsListOfStrs(x) == x.py = "list" /\ \A i \in DOMAIN x.v : x.v[i].py = "str"
Queries_ == DOMAIN eval_call.actual.v
relevant_(i) == Range(ids_of(eval_call.actual.v[i]))
retrieved_(i) == ids_of(eval_call.predicted.v[i])
\* the ranks of the retrieved list that hold a relevant id
RelevantRanks(relevant, retrieved) == {j \in DOMAIN retrieved : retrieved[j] \in relevant}
Ratio(n, d) == IF d = 0 THEN Zero ELSE Fraction(n, d)
MeanOverQueries(f(_)) == mean([i \in Queries_ |-> f(i)])

AveragePrecision(relevant, retrieved) ==
    LET ranks == RelevantRanks(relevant, retrieved)
        at(j) == Fraction(Cardinality({k \in ranks : k <= j}), j)
    IN IF ranks = {} THEN Zero
       ELSE frac_div(frac_sum([n \in 1..Cardinality(ranks) |->
                                  at(CHOOSE j \in ranks :
                                        Cardinality({k \in ranks : k <= j}) = n)]),
                     Number(Cardinality(relevant)))

\* C16: calculate_AP called with the relevant ids and the retrieved ids of
\* one query (actual=["a","b","c"], predicted=["x","a","y","b"]) returns the
\* Average Precision of that query, 1/3 for the example.
C16_AveragePrecisionOfOneQuery ==
    (/\ eval_call.op = "calculate_AP"
     /\ IsListOfStrs(eval_call.actual) /\ IsListOfStrs(eval_call.predicted)
     /\ eval_call.actual.v # <<>>) =>
        /\ Returned(AveragePrecision(Range(ids_of(eval_call.actual)),
                                              ids_of(eval_call.predicted)))
        /\ (/\ eval_call.actual = Ids_(<<"a", "b", "c">>)
            /\ eval_call.predicted = Ids_(<<"x", "a", "y", "b">>))
           => Returned(Fraction(1, 3))

\* C16 amended: calculate_AP and calculate_MAP called with one list per
\* query return the mean over the queries of the Average Precision of each
\* query; calculate_AP([["a","b","c"]], [["x","a","y","b"]]) returns 1/3.
C16_MeanAveragePrecisionOfQueries ==
    (/\ eval_call.op \in {"calculate_AP", "calculate_MAP"}
     /\ IsListOfLists(eval_call.actual) /\ IsListOfLists(eval_call.predicted)) =>
        LET AP(i) == AveragePrecision(relevant_(i), retrieved_(i)) IN
        /\ Returned(MeanOverQueries(AP))
        /\ (/\ eval_call.actual = List(<<Ids_(<<"a", "b", "c">>)>>)
            /\ eval_call.predicted = List(<<Ids_(<<"x", "a", "y", "b">>)>>))
           => Returned(Fraction(1, 3))

\* C16 witness: calculate_AP([["a","b","c"]], [["x","a","y","b"]]) = 1/3.
C16_AveragePrecisionOfTheExample ==
    /\ eval_call.op = "calculate_AP"
    /\ eval_call.actual = List(<<Ids_(<<"a", "b", "c">>)>>)
    /\ eval_call.predicted = List(<<Ids_(<<"x", "a", "y", "b">>)>>)
    /\ Returned(Fraction(1, 3))

\* binary-relevance DCG of one query: the first retrieved item counts its
\* relevance undiscounted, the item at 0-based position i >= 1 counts
\* relevance / (i + 1)
DCG_(relevant, retrieved) ==
    frac_sum([j \in DOMAIN retrieved |->
                 IF retrieved[j] \in relevant THEN Fraction(1, j) ELSE Zero])
IDCG_(n) == frac_sum([j \in 1..n |-> Fraction(1, j)])

\* C17: for any non-empty list of queries calculate_DCG returns the mean
\* over the queries of the binary-relevance DCG, and calculate_NDCG the mean
\* of DCG / IDCG(|relevant|) (0 if IDCG is 0).
C17_DCGIsTheMeanOverQueries ==
    (eval_call.op \in {"calculate_DCG", "calculate_NDCG"} /\ eval_call.actual.v # <<>>) =>
        LET DCG(i) == DCG_(relevant_(i), retrieved_(i))
            NDCG(i) == IF Cardinality(relevant_(i)) = 0 THEN Zero
                       ELSE frac_div(DCG(i), IDCG_(Cardinality(relevant_(i))))
        IN /\ eval_call.op = "calculate_DCG" => Returned(MeanOverQueries(DCG))
           /\ eval_call.op = "calculate_NDCG" => Returned(MeanOverQueries(NDCG))

\* reciprocal rank of one query: 1 / rank of the first relevant retrieved id
ReciprocalRank(relevant, retrieved) ==
    LET ranks == RelevantRanks(relevant, retrieved)
    IN IF ranks = {} THEN Zero ELSE Fraction(1, CHOOSE j \in ranks : \A k \in ranks : j <= k)

\* C18: calculate_RR for one query returns 1/rank of the first retrieved id
\* that is relevant (0 if none), calculate_MRR the mean of that value over
\* the queries, and the 'Reciprocal Rank' calculate_evaluation reports is
\* computed by the same rule.
C18_ReciprocalRank ==
    LET RR(i) == ReciprocalRank(relevant_(i), retrieved_(i)) IN
    /\ (eval_call.op = "calculate_RR" /\ IsListOfStrs(eval_call.actual)
                                      /\ IsListOfStrs(eval_call.predicted))
       => Returned(ReciprocalRank(Range(ids_of(eval_call.actual)),
                                           ids_of(eval_call.predicted)))
    /\ eval_call.op = "calculate_MRR" => Returned(MeanOverQueries(RR))
    /\ (eval_call.op = "calculate_evaluation" /\ Len(eval_call.actual.v) = 1)
       => /\ eval_ret.kind = "return"
          /\ eval_ret.v.RR = RR(1)

----------------------------------------------------------------------------
(* Claims about Snippet, under SpecSnippet *)

\* the query tokens that survive the removal of stopwords
SurvivingTokens ==
    SelectSeq(split(snippet_call.query), LAMBDA w : str_lower(w) \notin stop_words)

\* C19: every query token that survives stopword removal and occurs verbatim
\* (case-sensitively) as a token of the document appears in the snippet as
\* ***token*** and is not in the not-found list; the not-found list is
\* exactly the surviving query tokens that do not occur in the document.
C19_MatchedTokensAreHighlighted ==
    snippet_call.op = "find_snippet" =>
        LET doc_tokens == Range(split(snippet_call.doc))
            final_snippet == snippet_ret.v[1]
            not_exist_words == snippet_ret.v[2]
        IN /\ \A i \in DOMAIN SurvivingTokens :
                  SurvivingTokens[i] \in doc_tokens =>
                      /\ (Stars3 \o SurvivingTokens[i] \o Stars3) \in Range(split(final_snippet))
                      /\ SurvivingTokens[i] \notin Range(not_exist_words)
           /\ not_exist_words = SelectSeq(SurvivingTokens, LAMBDA w : w \notin doc_tokens)

----------------------------------------------------------------------------
(* Claims about the Scorer, under SpecScorer *)

ScoringOps == {"compute_scores_with_vector_space_model", "compute_scores_with_okapi_bm25"}

\* the document ids found in the postings of the index
IndexedDocuments == UNION {DOMAIN scorer_index[t] : t \in DOMAIN scorer_index}

\* the documents that match at least one term of the query of the last call
MatchingDocuments ==
    {d \in IndexedDocuments :
        \E i \in DOMAIN scorer_call.query :
            /\ scorer_call.query[i] \in DOMAIN scorer_index
            /\ d \in DOMAIN scorer_index[scorer_call.query[i]]}

\* C20: compute_scores_with_vector_space_model and
\* compute_scores_with_okapi_bm25 return a map whose keys are exactly the
\* documents found in the postings of some query term present in the
\* index: every document matching at least one term is scored and no
\* document matching zero terms appears.
C20_ScoredDocumentsAreTheCandidates ==
    scorer_call.op \in ScoringOps =>
        /\ scorer_ret.kind = "return"
        /\ DOMAIN scorer_ret.v = MatchingDocuments

\* a two-term query scored: some document matches the second term only,
\* and some indexed document matches no term and is left out
C20_SecondTermOnlyDocumentScored ==
    /\ scorer_call.op \in ScoringOps
    /\ scorer_ret.kind = "return"
    /\ Len(scorer_call.query) = 2
    /\ \E d \in DOMAIN scorer_ret.v :
           ~(/\ scorer_call.query[1] \in DOMAIN scorer_index
             /\ d \in DOMAIN scorer_index[scorer_call.query[1]])
    /\ IndexedDocuments \ DOMAIN scorer_ret.v # {}

\* idf(term) = ln(N / df(term)) of a term with postings
IdfOfIndexedTerm(term) ==
    LET ratio == Fraction(N, Cardinality(DOMAIN scorer_index[term]))
    IN IF ratio = One THEN Zero ELSE [ln |-> ratio]

\* tf * (k+1) / (tf + k*(1 - b + b*docLen/avgLen))   with k = 6/5, b = 3/4
BM25Factor(tf, docLen, avgLen) ==
    frac_div(frac_mul(Number(tf), Fraction(11, 5)),
             frac_add(Number(tf),
                      frac_mul(Fraction(6, 5),
                               frac_add(Fraction(1, 4),
                                        frac_div(frac_mul(Fraction(3, 4), Number(docLen)),
                                                 avgLen)))))

\* the positions of the query of the last call whose term is present in the
\* index and in the document scored
TermsOfTheDocument ==
    {i \in DOMAIN scorer_call.query :
        /\ scorer_call.query[i] \in DOMAIN scorer_index
        /\ scorer_call.document_id \in DOMAIN scorer_index[scorer_call.query[i]]}

\* the sum of idf * factor over those positions, as a linear form
BM25Sum ==
    LET q == scorer_call.query
        d == scorer_call.document_id
        args == {IdfOfIndexedTerm(q[i]).ln :
                    i \in {j \in TermsOfTheDocument : IdfOfIndexedTerm(q[j]) # Zero}}
    IN [a \in args |->
           frac_sum([i \in DOMAIN q |->
               IF i \in TermsOfTheDocument /\ IdfOfIndexedTerm(q[i]) = [ln |-> a]
               THEN BM25Factor(scorer_index[q[i]][d], DocumentLengths[d],
                               scorer_call.average_document_field_length)
               ELSE Zero])]

\* C21: get_okapi_bm25_score returns the sum, over the query terms present
\* in the index and in the document, of
\* idf(term)*tf*(k+1)/(tf + k*(1 - b + b*docLen/avgLen)) with k = 1.2 and
\* b = 0.75, and nothing for the other terms; for one query term with
\* tf = 2 in a document of average length the score is 1.375 * idf.
C21_OkapiBM25Score ==
    scorer_call.op = "get_okapi_bm25_score" =>
        /\ scorer_ret.kind = "return"
        /\ scorer_ret.v = BM25Sum
        /\ (/\ Len(scorer_call.query) = 1
            /\ TermsOfTheDocument = {1}
            /\ scorer_index[scorer_call.query[1]][scorer_call.document_id] = 2
            /\ Number(DocumentLengths[scorer_call.document_id])
                   = scorer_call.average_document_field_length
            /\ IdfOfIndexedTerm(scorer_call.query[1]) # Zero)
           => scorer_ret.v
                 = [a \in {IdfOfIndexedTerm(scorer_call.query[1]).ln} |-> Fraction(11, 8)]

\* the example: one term with tf = 2 in a document of average length, scored
\* 11/8 = 1.375 times ln(N / df)
C21_ScoreOfTheExample ==
    /\ scorer_call.op = "get_okapi_bm25_score"
    /\ Len(scorer_call.query) = 1
    /\ TermsOfTheDocument = {1}
    /\ scorer_index[scorer_call.query[1]][scorer_call.document_id] = 2
    /\ Number(DocumentLengths[scorer_call.document_id])
           = scorer_call.average_document_field_length
    /\ scorer_ret = Return([a \in {Fraction(N, 1)} |-> Fraction(11, 8)])

----------------------------------------------------------------------------
(* Claims about SVMClassifier, under SpecSVM *)

\* C22: once fitted, predict(features) returns the label vector predicted
\* by the underlying support vector classifier, one label per input row,
\* and prediction_report(features, labels) returns the report of the
\* model's predictions for those features against the given labels.
C22_SVMClassifierContract ==
    svc_fitted # None =>
        /\ svm_call.op = "predict" => svm_ret = Return(svc_predicted)
        /\ svm_call.op = "prediction_report" =>
               \E predicted \in [DOMAIN svm_call.x -> svc_fitted.classes] :
                   svm_ret = Return(classification_report(svm_call.y.v, predicted))

----------------------------------------------------------------------------
(* Further claims about the Index, under SpecIndex *)

\* the ids of the corpus the Index was built from
CorpusIds == {preprocessed_documents[k].id : k \in DOMAIN preprocessed_documents}

\* C23: an Index built from a corpus C, on which add_document_to_index(d)
\* is then called for a record d whose id is not in C, has the DOCUMENTS,
\* STARS, GENRES and SUMMARIES indexes of Index(C followed by d).
C23_AddAgreesWithBuild ==
    (/\ ncalls = 1
     /\ call.op = "add_document_to_index"
     /\ call.document.id \notin CorpusIds)
    => index = Index(Append(preprocessed_documents, call.document))

\* the step of a remove_document_from_index call
RemoveStep == ncalls' = ncalls + 1 /\ call'.op = "remove_document_from_index"

\* the id is indexed: it is a key of DOCUMENTS or of some posting map
IsIndexed(idx, id) ==
    \/ id \in DOMAIN idx.documents
    \/ \E f \in PostingFields : \E term \in DOMAIN idx[f] : id \in DOMAIN idx[f][term]

\* C24: remove_document_from_index(id) leaves id out of DOCUMENTS and out of
\* the posting map of every term of STARS, GENRES and SUMMARIES; the term
\* keys of each field (those with an empty posting map included) and the
\* postings and records of every other id are as before; removing an id
\* that is not indexed changes nothing.
C24_RemoveFrame ==
    [][RemoveStep =>
        LET id == call'.document_id IN
        /\ id \notin DOMAIN index'.documents
        /\ \A other \in DOMAIN index.documents \ {id} :
               /\ other \in DOMAIN index'.documents
               /\ index'.documents[other] = index.documents[other]
        /\ DOMAIN index'.documents \subseteq DOMAIN index.documents
        /\ \A f \in PostingFields :
               /\ DOMAIN index'[f] = DOMAIN index[f]
               /\ \A term \in DOMAIN index[f] :
                      /\ DOMAIN index'[f][term] = DOMAIN index[f][term] \ {id}
                      /\ \A other \in DOMAIN index'[f][term] :
                             index'[f][term][other] = index[f][term][other]
        /\ ~IsIndexed(index, id) => index' = index
      ]_vars

\* an indexed id has been removed: a term keeps its key with an empty
\* posting map, and another id still has postings
C24_EmptyPostingMapKept ==
    /\ call.op = "remove_document_from_index"
    /\ ~IsIndexed(index, call.document_id)
    /\ \E f \in PostingFields : \E term \in DOMAIN index[f] : index[f][term] = EmptyDict
    /\ \E f \in PostingFields : \E term \in DOMAIN index[f] : index[f][term] # EmptyDict

\* the documents of the corpus before the first one without stars
BeforeFirstAbsentStars ==
    {k \in DOMAIN preprocessed_documents :
        \A j \in 1..k : preprocessed_documents[j].stars # None}

\* the lower-cased parts of the star names of document k
StarParts(k) == lower_all(flatten(preprocessed_documents[k].stars.v))

----------------------------------------------------------------------------
(* Claims about the Scorer over its lifetime, under SpecScorerLifetime *)

\* a step in which get_idf is called
GetIdfStep == scorer_call'.op = "get_idf" /\ scorer_index' = scorer_index

\* ln(N / df), or 0 when df = 0, from the postings as they are now
IdfOfPostings(term) ==
    LET df == IF term \in DOMAIN scorer_index
              THEN Cardinality(DOMAIN scorer_index[term]) ELSE 0
    IN IF df = 0 THEN Zero
       ELSE IF Fraction(N, df) = One THEN Zero ELSE [ln |-> Fraction(N, df)]

\* C26: self.idf keeps every value it holds, whatever happens to the
\* postings; get_idf(term) returns the value held for the term when there
\* is one, and otherwise ln(N/df) of the postings of that moment, or 0
\* without error when df = 0, which it then holds for the term.
C26_IdfIsMemoized ==
    [][/\ \A term \in DOMAIN idf : term \in DOMAIN idf' /\ idf'[term] = idf[term]
       /\ GetIdfStep =>
              LET term == scorer_call'.query[1] IN
              /\ scorer_ret'.kind = "return"
              /\ term \in DOMAIN idf => scorer_ret'.v = idf[term]
              /\ term \notin DOMAIN idf => scorer_ret'.v = IdfOfPostings(term)
              /\ term \in DOMAIN idf' /\ idf'[term] = scorer_ret'.v
      ]_vars

\* get_idf has returned 0 for a term first seen without postings, although
\* the term has postings by now
C26_StaleIdfReturned ==
    /\ scorer_call.op = "get_idf"
    /\ scorer_ret = Return(Zero)
    /\ IdfOfPostings(scorer_call.query[1]) # Zero

----------------------------------------------------------------------------
(* Claims about the weights of the vector space model, under SpecScorer *)

\* the weight a three-letter code gives to a term of frequency tf (before
\* the offset) and the given idf
CodeWeight(code, tf, idf_value) ==
    Weight(IF code[1] = "n" THEN "raw" ELSE "log1p",
           Fraction(10 * tf + 1, 10),
           IF code[2] = "t" THEN idf_value ELSE One)

\* two weights are the same number: the same expression, or both times 0
\* (x and 1 + ln(x) differ for every x = tf + 0.1)
SameWeight(w, e) == w = e \/ (w.factor = Zero /\ e.factor = Zero)

\* two weight lists are the same vector up to a positive factor, and so
\* the same vector once normalised: where not 0, the weights of both have
\* one tf part each over one x >= 1 (so that 1 + ln(x) > 0), times the
\* same factors
SameDirection(ws, es) ==
    LET nonzero == {i \in DOMAIN ws : ws[i].factor # Zero} IN
    /\ \A i \in DOMAIN ws : ws[i].factor = es[i].factor /\ ws[i].x = es[i].x
    /\ \A i, j \in nonzero :
           /\ ws[i].f = ws[j].f /\ es[i].f = es[j].f /\ ws[i].x = ws[j].x
           /\ ws[i].x.num >= ws[i].x.den

\* the vector has the value of these weights, normalised or not
HasWeights(vector, es, normalized) ==
    /\ vector.normalized = normalized
    /\ DOMAIN vector.weights = DOMAIN es
    /\ \/ \A i \in DOMAIN es : SameWeight(vector.weights[i], es[i])
       \/ normalized /\ SameDirection(vector.weights, es)

\* C27: in every score of compute_scores_with_vector_space_model the query
\* vector is weighted by the query code as the document vector is by the
\* document code: raw tf + 0.1 for a first letter 'n' and 1 + ln(tf + 0.1)
\* otherwise, times idf for a second letter 't', normalised for a third
\* letter 'c'.
C27_QueryWeightedByItsCode ==
    (scorer_call.op = "compute_scores_with_vector_space_model"
        /\ scorer_ret.kind = "return") =>
        LET query == scorer_call.query
            codes == split_on(scorer_call.method, ".", 1, <<>>)
        IN \A d \in DOMAIN scorer_ret.v :
              LET tf(i) == IF query[i] \in DOMAIN scorer_index
                              /\ d \in DOMAIN scorer_index[query[i]]
                           THEN scorer_index[query[i]][d] ELSE 0
              IN /\ HasWeights(scorer_ret.v[d].dot[1],
                        [i \in DOMAIN query |-> CodeWeight(codes[1], tf(i), idf[query[i]])],
                        codes[1][3] = "c")
                 /\ HasWeights(scorer_ret.v[d].dot[2],
                        [i \in DOMAIN query |->
                            CodeWeight(codes[2], count(query, query[i]), idf[query[i]])],
                        codes[2][3] = "c")

----------------------------------------------------------------------------
(* Claims about Metadata_index, under SpecMetadata *)

\* the whitespace tokens of the items of a field over all the documents:
\* (document, item, position), none for a document whose field is None
FieldTokens(where) ==
    {t \in UNION {{<<id, i, j>> : i \in 1..3, j \in 1..3} : id \in DOMAIN metadata_documents} :
        LET movie == metadata_documents[t[1]] IN
        /\ movie[where] # None
        /\ t[2] \in DOMAIN movie[where].v
        /\ t[3] \in 1..(IF where = "genres" THEN 1 ELSE Len(movie[where].v[t[2]]))}

----------------------------------------------------------------------------
(* Further claims about the crawler, under SpecCrawler *)

\* C29: when the loop of start_crawling has exited with crawled_counter
\* below the threshold, every submitted crawl_page_info call has completed
\* and the frontier is empty; when start_crawling has returned, no worker
\* is running.
C29_NoEarlyStopWithWorkInFlight ==
    /\ (mainpc = "final_wait" /\ crawled_counter < CrawlingThreshold) =>
           /\ \A t \in DOMAIN tasks : Finished(t)
           /\ not_crawled = <<>>
    /\ mainpc = "done" => \A t \in DOMAIN tasks : Finished(t)

\* the loop has exited below the threshold after a page was crawled and
\* the frontier drained
C29_FrontierDrainedBelowThreshold ==
    /\ mainpc = "final_wait"
    /\ crawled_counter < CrawlingThreshold
    /\ crawled # <<>>
    /\ not_crawled = <<>>


----------------------------------------------------------------------------
\* C30: once jaccard_similarity_test has a candidate pair (a bucket holds
\* more than one document), the test ends and reports the ratio of the
\* confirmed pairs to all candidate pairs: the loop that samples a random
\* document other than the two of the pair always ends.
C30_SimilarityTestTerminates ==
    (lsh_pc = "while") ~> (lsh_pc = "done" /\ lsh_ret.kind = "return")
====
